---------------------------- MODULE Spec2Model ----------------------------
(***************************************************************************)
(* State-machine model of the mafiabot session engine:                     *)
(*   src/main.py         handlers (cmd_unirme, cmd_empezar, cb_handler),   *)
(*                       the mafia consensus tasks and the job callbacks   *)
(*   src/game_engine.py  assign_roles, resolve_night, resolve_votes_job,   *)
(*                       check_win_conditions_sync                         *)
(*   src/game_manager.py GameManager.add_player, the pending actions and   *)
(*                       the persisted rows                                *)
(*   src/dashboard.py    dash_reset_lobby                                  *)
(*   src/models.py       ROLES, PlayerState, GameState                     *)
(*                                                                         *)
(* One session (one GameState) is modelled.  Update handlers run one at a  *)
(* time (the Application is built without concurrent updates), while job   *)
(* callbacks and asyncio tasks interleave with them at their await points: *)
(* a job callback is therefore a sequence of steps, one per stretch of     *)
(* code between two awaits that matters to the session state.              *)
(*                                                                         *)
(* Time is the integer clock `now` (seconds).  The program observes time   *)
(* only by comparing it with expiry instants and timer due times, so the   *)
(* clock jumps from one such instant to the next.                          *)
(*                                                                         *)
(* Spec is the game as the bot runs it.  SpecAdmin adds the dashboard's    *)
(* reset to the lobby.  SpecWin, SpecAssign, SpecStore and SpecCreate      *)
(* apply the win check, the role draw, the persist/load round trip and     *)
(* create_game/get_game to sessions drawn from bounded sets.  SpecVote is  *)
(* the mafia's voting in a night with three mafia members.  SpecRestart is *)
(* the start of the process on a persisted session, SpecSweep the same     *)
(* with fairness.  Two callbacks of one kind armed for the same second are *)
(* one element of `jobs`.  The pending_actions table and the in-memory     *)
(* pending actions are the one variable `pending`.                         *)
(***************************************************************************)
EXTENDS Integers, Sequences, FiniteSets, TLC

\* ------------------------------------------------------------------ bounds
MaxUsers == 5      \* distinct chat users that may act
MaxKeys == 12      \* callback keys mk_callback_key hands out in one run
MaxClicks == 2     \* button presses and dashboard requests in one run
MaxVoters == 2     \* users that press the buttons addressed to nobody
MaxTime == 3700    \* horizon of the clock, in seconds
MaxWinPlayers == 3  \* players of the sessions the win check is applied to
MaxCount == 2      \* highest count of one role in a loaded roles_config
MaxStorePlayers == 2  \* players of the sessions that are persisted and loaded
MaxResets == 1     \* resets to the lobby in one run

\* ------------------------------------------------------- program constants
MIN_PLAYERS == 4           \* cmd_empezar: len(g.players) < 4
PENDING_TTL == 3600        \* build_player_keyboard_and_persist expires_in
CONFIRM_TIMEOUT == 60      \* handle_mafia_votes_and_confirm confirm_timeout
VOTE_WINDOW == 60          \* job_end_day voting window
DAY_SECONDS == 600         \* GameState.day_seconds
NIGHT_DEFAULT == 300       \* GameState.night_seconds
NIGHT_LONG == 3660         \* dash_edit: night = 61 gives clamp(61 * 60)
REMINDER_SECONDS == 120    \* GameState.periodic_reminder_seconds

Users == 1..MaxUsers
None == 0                  \* Python None for ids, deadlines and expiry
NoRole == "none"           \* PlayerState.role_key = None

\* ------------------------------------------------------------------- roles
RoleKeys == {"mafia", "padrino", "doctor", "detective", "sheriff", "escort",
             "consorte", "chantajeador", "guardaespaldas", "vigilante",
             "asesino", "ciudadano"}

Faction(rk) ==
    IF rk \in {"mafia", "padrino", "consorte", "chantajeador"} THEN "mafia"
    ELSE IF rk = "asesino" THEN "neutral"
    ELSE "town"

has_night_action(rk) == rk # "ciudadano"

\* roles_config is a dict: a sequence of <<role key, count>> in dict order.
\* DefaultConfig is the dataclass default; KillerConfig is a configuration
\* loaded from the games table that is shorter than the player list and
\* holds roles of all three factions; PairConfig has two mafia members
DefaultConfig == << <<"mafia", 1>>, <<"ciudadano", 3>> >>
KillerConfig == << <<"mafia", 1>>, <<"doctor", 1>>, <<"asesino", 1>> >>
PairConfig == << <<"mafia", 2>>, <<"ciudadano", 2>> >>

\* --------------------------------------------------------------- variables
VARIABLES
    phase,           \* g.phase
    roles_config,    \* g.roles_config
    night_seconds,   \* g.night_seconds
    phase_deadline,  \* g.phase_deadline (None = 0)
    players,         \* g.players: user id -> PlayerState
    night_actions,   \* g.night_actions: ledger kind -> list of <<actor, target>>
    mafia_votes,     \* g.mafia_votes: insertion-ordered dict, list of <<voter, target>>
    pending,         \* g.pending_action_callbacks: key -> pending action
    next_key,        \* number of keys handed out so far
    now,             \* int(time.time())
    jobs,            \* armed job-queue callbacks: set of [name, due]
    pass,            \* the job callback in flight and its position
    hmvc_tasks,      \* created, not yet run handle_mafia_votes_and_confirm tasks
    hmvc_loops,      \* handle_mafia_votes_and_confirm tasks notifying: set of [key, target]
    timeouts,        \* sleeping _mafia_confirm_timeout tasks: set of [key, due]
    handler,         \* the update handler suspended at an await (cb_handler)
    clicks,          \* callback queries delivered so far
    applied,         \* history: <<key, user>> pairs whose response was recorded
    last,            \* history: the operation that produced this state
    job_ids,         \* g.job_ids: the names under which job handles are kept
    resets,          \* resets to the lobby done so far
    commits,         \* history: the commits to mafia_confirmed, list of [key, by]
    vote_log,        \* history: the changes of g.mafia_votes since it was last
                     \* emptied, list of <<voter, target>> in the order they came
    registry,        \* where the session is: "memory" (in self._games and in the
                     \* store), "store" (in the store only) or "none"
    held,            \* the object self._games holds for the session, by
                     \* identity (None = 0 while the store alone has it)
    getters,         \* the get_game calls in flight: caller -> [pc, obj]
    rows,            \* the pending_actions table: key -> pending action
    tasks,           \* the tasks working on the table: _persist_game_async
                     \* and delete_pending_action_async, each [pc, ...]
    games,           \* GAME._games as the re-arm pass walks it: list of
                     \* [chat_id, phase, phase_deadline] in dict order
    rearmed          \* the callbacks the re-arm pass armed: set of
                     \* [name, due, chat_id, g]

vars == <<phase, roles_config, night_seconds, phase_deadline, players,
          night_actions, mafia_votes, pending, next_key, now, jobs, pass,
          hmvc_tasks, hmvc_loops, timeouts, handler, clicks, applied, last, job_ids,
          resets, commits, vote_log, registry, held, getters, rows, tasks,
          games, rearmed>>

LedgerKinds == {"block", "heal", "guard", "vigilante_shot", "serial_kill",
                "blackmail", "investigate", "vote", "mafia_confirmed"}

EmptyLedger == [k \in LedgerKinds |-> << >>]

Idle == [pc |-> "idle"]

\* the object a session is first built as; a get_game call that loads the
\* session builds one of its own
FirstObject == 1

\* the two threads that call get_game: the event loop and the dashboard
Callers == {"loop", "dash"}

NoCalls == [c \in Callers |-> [pc |-> "idle", obj |-> None]]

\* no _persist_game_async and no delete_pending_action_async in flight
NoTasks == [persist |-> [pc |-> "idle", snapshot |-> << >>],
            delete |-> [pc |-> "idle", key |-> None]]

\* `last` describes the button press that produced the state, if one did
NoClick == [op |-> "other", key |-> 0, user |-> 0, action |-> "", res |-> "",
            repeat |-> FALSE]

\* PlayerState(user_id, name): role_key None, alive, not blocked, not silenced
PlayerState == [role_key |-> NoRole, alive |-> TRUE, blocked |-> FALSE,
                silenced |-> FALSE]

InitWith(configs, nights) ==
    /\ phase = "lobby"
    /\ roles_config \in configs
    /\ night_seconds \in nights
    /\ phase_deadline = None
    /\ players = << >>
    /\ night_actions = EmptyLedger
    /\ mafia_votes = << >>
    /\ pending = << >>
    /\ next_key = 0
    /\ now = 0
    /\ jobs = {}
    /\ pass = Idle
    /\ hmvc_tasks = 0
    /\ hmvc_loops = {}
    /\ timeouts = {}
    /\ handler = Idle
    /\ clicks = 0
    /\ applied = {}
    /\ last = NoClick
    /\ job_ids = {}
    /\ resets = 0
    /\ commits = << >>
    /\ vote_log = << >>
    /\ registry = "memory"
    /\ held = IF registry = "memory" THEN FirstObject ELSE None
    /\ getters = NoCalls
    /\ rows = pending
    /\ tasks = NoTasks
    /\ games = << >>
    /\ rearmed = {}

\* ----------------------------------------------------------------- helpers
Alive(ps) == {u \in DOMAIN ps : ps[u].alive}

Range(s) == {s[i] : i \in DOMAIN s}

\* the n-th smallest element first: a set of integers as an ascending list
RECURSIVE SortedSeq(_)
SortedSeq(S) ==
    IF S = {} THEN << >>
    ELSE LET m == CHOOSE x \in S : \A y \in S : x <= y
         IN <<m>> \o SortedSeq(S \ {m})

\* ------------------------------------------------------------ assign_roles
RECURSIVE Repeat(_, _)
Repeat(x, n) == IF n <= 0 THEN << >> ELSE <<x>> \o Repeat(x, n - 1)

RECURSIVE ExpandConfig(_)
ExpandConfig(cfg) ==
    IF cfg = << >> THEN << >>
    ELSE Repeat(Head(cfg)[1], Head(cfg)[2]) \o ExpandConfig(Tail(cfg))

NoPadRolePool(cfg, n) == ExpandConfig(cfg)

\* the pool: roles_config expanded, padded with ciudadano up to n players
RolePool(cfg, n) ==
    LET pool == ExpandConfig(cfg)
    IN pool \o Repeat("ciudadano", n - Len(pool))

\* both lists are shuffled and zipped; of the outcomes of random.shuffle the
\* model draws the rotations: player i of the sorted ids gets slot i + r
assign_roles(ps, cfg) ==
    LET ids == SortedSeq(DOMAIN ps)
        pool == RolePool(cfg, Len(ids))
        m == IF Len(pool) > Len(ids) THEN Len(pool) ELSE Len(ids)
        slot(i, r) == ((i - 1 + r) % m) + 1
        pos(u) == CHOOSE i \in DOMAIN ids : ids[i] = u
    IN {[u \in DOMAIN ps |->
            IF slot(pos(u), r) <= Len(pool)
            THEN [ps[u] EXCEPT !.role_key = pool[slot(pos(u), r)]]
            ELSE ps[u]] : r \in 0..(m - 1)}

\* ------------------------------------------------------------ prompt_night
\* the action tag prompt_night picks for a role ("" = no prompt)
action_tag(rk) ==
    IF rk \in {"mafia", "padrino", "consorte"} THEN "mafia_pick"
    ELSE IF rk = "doctor" THEN "heal"
    ELSE IF rk = "escort" THEN "block"
    ELSE IF rk = "guardaespaldas" THEN "guard"
    ELSE IF rk = "vigilante" THEN "kill"
    ELSE IF rk = "asesino" THEN "serial_kill"
    ELSE IF rk \in {"detective", "sheriff"} THEN "investigate"
    ELSE IF rk = "chantajeador" THEN "blackmail"
    ELSE ""

\* one button per living actor with a night action and living other player
PromptButtons(ps) ==
    {<<a, t>> \in Alive(ps) \X Alive(ps) :
        /\ a # t
        /\ ps[a].role_key # NoRole
        /\ has_night_action(ps[a].role_key)
        /\ action_tag(ps[a].role_key) # ""}

\* buttons in the order prompt_night creates them (players in dict order)
ButtonSeq(B) ==
    LET code(b) == b[1] * (MaxUsers + 2) + b[2]
        order == SortedSeq({code(b) : b \in B})
    IN [i \in 1..Len(order) |-> CHOOSE b \in B : code(b) = order[i]]

PendingAction(action, actor, target, expires) ==
    [action |-> action, actor |-> actor, target |-> target,
     confirmations |-> << >>, expires_at |-> expires]

\* build_player_keyboard_and_persist for every prompted player
prompt_night(pend, nk, ps, t) ==
    LET bs == ButtonSeq(PromptButtons(ps))
    IN [k \in DOMAIN pend \cup (nk + 1)..(nk + Len(bs)) |->
          IF k \in DOMAIN pend THEN pend[k]
          ELSE PendingAction(action_tag(ps[bs[k - nk][1]].role_key),
                             bs[k - nk][1], bs[k - nk][2], t + PENDING_TTL)]

\* ------------------------------------------------------------------ lobby
\* GameManager.add_player called by cmd_unirme (users join in id order)
add_player(ps, u) ==
    IF u \in DOMAIN ps THEN ps
    ELSE [x \in DOMAIN ps \cup {u} |-> IF x = u THEN PlayerState ELSE ps[x]]

NextUser == Cardinality(DOMAIN players) + 1

\* resolve_night returns into job_end_night without an await: nothing runs there
Returning == pass.pc = "en_back"

UpdatesAllowed == handler.pc = "idle" /\ ~Returning

cmd_unirme(u) ==
    /\ UpdatesAllowed
    /\ players' = add_player(players, u)
    /\ last' = NoClick
    /\ UNCHANGED <<phase, roles_config, night_seconds, phase_deadline,
                   night_actions, mafia_votes, pending, next_key, now, jobs,
                   pass, hmvc_tasks, hmvc_loops, timeouts, handler, clicks, applied,
                   job_ids, resets, commits, vote_log, registry,
                   held, getters, rows, tasks, games, rearmed>>

cmd_empezar ==
    /\ UpdatesAllowed
    /\ \/ /\ phase # "lobby"
          /\ last' = NoClick
          /\ UNCHANGED <<phase, phase_deadline, players, pending, next_key, jobs,
                         job_ids>>
       \/ /\ phase = "lobby"
          /\ Cardinality(DOMAIN players) < MIN_PLAYERS
          /\ last' = NoClick
          /\ UNCHANGED <<phase, phase_deadline, players, pending, next_key, jobs,
                         job_ids>>
       \/ /\ phase = "lobby"
          /\ Cardinality(DOMAIN players) >= MIN_PLAYERS
          /\ \E ps \in assign_roles(players, roles_config) :
                /\ next_key + Cardinality(PromptButtons(ps)) <= MaxKeys
                /\ players' = ps
                /\ pending' = prompt_night(pending, next_key, ps, now)
                /\ next_key' = next_key + Cardinality(PromptButtons(ps))
          /\ phase' = "night"
          /\ phase_deadline' = now + night_seconds
          /\ jobs' = jobs \cup {[name |-> "job_end_night", due |-> now + night_seconds]}
          /\ job_ids' = job_ids \cup {"night_end", "reminder"}
          /\ last' = NoClick
    /\ UNCHANGED <<roles_config, night_seconds, night_actions, mafia_votes, now,
                   pass, hmvc_tasks, hmvc_loops, timeouts, handler, clicks, applied, resets, commits, vote_log, registry,
                   held, getters, tasks, games, rearmed>>
    /\ rows' = pending'

\* -------------------------------------------------------------- cb_handler
NeverExpired(p) == FALSE

\* expires_at and int(time.time()) > expires_at
Expired(p) == p.expires_at # None /\ now > p.expires_at

ActorUnchecked(p, u) == FALSE

\* expected_actor and expected_actor != user.id
Unauthorized(p, u) == p.actor # None /\ p.actor # u

DictDelete(d, k) == [x \in DOMAIN d \ {k} |-> d[x]]

\* Counter(values).most_common(1)[0][0]: the highest count, the first seen wins
most_common(vals) ==
    LET cnt(v) == Cardinality({i \in DOMAIN vals : vals[i] = v})
        top == CHOOSE c \in {cnt(vals[i]) : i \in DOMAIN vals} :
                   \A j \in DOMAIN vals : cnt(vals[j]) <= c
        first == CHOOSE i \in DOMAIN vals :
                   /\ cnt(vals[i]) = top
                   /\ \A j \in DOMAIN vals : cnt(vals[j]) = top => i <= j
    IN vals[first]

VoteValues(mv) == [i \in DOMAIN mv |-> mv[i][2]]

VoteKeys(mv) == {mv[i][1] : i \in DOMAIN mv}

\* g.mafia_votes[user.id] = target (a dict keeps the position of a known key)
SetMafiaVote(mv, u, t) ==
    IF u \in VoteKeys(mv)
    THEN [i \in DOMAIN mv |-> IF mv[i][1] = u THEN <<u, t>> ELSE mv[i]]
    ELSE Append(mv, <<u, t>>)

AppendVote(votes, u, t) == Append(votes, <<u, t>>)

\* the vote_group branch: drop the voter's earlier pair, append the new one
ReplaceVote(votes, u, t) ==
    LET others(vt) == vt[1] # u
    IN Append(SelectSeq(votes, others), <<u, t>>)

\* the ledger kind each action tag of cb_handler writes ("" = no branch)
LedgerKey(tag, rk) ==
    IF tag \in {"heal", "block", "guard", "investigate", "blackmail"} THEN tag
    ELSE IF tag = "kill"
         THEN (IF rk = "asesino" THEN "serial_kill" ELSE "vigilante_shot")
    ELSE IF tag = "vote_group" THEN "vote"
    ELSE ""

\* the branches of cb_handler that write g.night_actions
RecordChoice(na, tag, rk, u, t) ==
    LET kind == LedgerKey(tag, rk)
    IN IF kind = "" THEN na
       ELSE IF kind = "vote" THEN [na EXCEPT !["vote"] = ReplaceVote(@, u, t)]
       ELSE [na EXCEPT ![kind] = Append(@, <<u, t>>)]

RoleOf(ps, u) == IF u \in DOMAIN ps THEN ps[u].role_key ELSE NoRole

HasEntry(list, u) == \E i \in DOMAIN list : list[i][1] = u

\* append_confirmation_async: no duplicate entries
append_confirmation(confs, u) ==
    IF u \in Range(confs) THEN confs ELSE Append(confs, u)

MafiaIds(ps) == {u \in Alive(ps) : ps[u].role_key # NoRole
                                   /\ Faction(ps[u].role_key) = "mafia"}

Click(k, u, tag, res, rep) ==
    [op |-> "cb_handler", key |-> k, user |-> u, action |-> tag, res |-> res,
     repeat |-> rep]

\* the response (callback query) of user u to button key k with target t
cb_handler(k, u, t) ==
    /\ UpdatesAllowed
    /\ clicks + resets < MaxClicks
    /\ clicks' = clicks + 1
    /\ LET \* the memory after the lookup: a key the memory lacks and the
           \* pending_actions table has is copied into the memory
           mem == IF k \in DOMAIN pending \/ k \notin DOMAIN rows THEN pending
                  ELSE [x \in DOMAIN pending \cup {k} |->
                           IF x = k THEN rows[k] ELSE pending[x]]
       IN
       IF k \notin DOMAIN mem
       THEN /\ last' = Click(k, u, "", "invalid", FALSE)
            /\ UNCHANGED <<pending, rows, night_actions, mafia_votes, hmvc_tasks,
                           hmvc_loops, handler, applied>>
       ELSE LET p == mem[k] IN
            IF Expired(p)
            THEN /\ pending' = DictDelete(mem, k)
                 /\ rows' = DictDelete(rows, k)
                 /\ last' = Click(k, u, p.action, "expired", FALSE)
                 /\ UNCHANGED <<night_actions, mafia_votes, hmvc_tasks, hmvc_loops,
                                handler, applied>>
            ELSE IF Unauthorized(p, u)
            THEN /\ pending' = mem
                 /\ last' = Click(k, u, p.action, "unauthorized", FALSE)
                 /\ UNCHANGED <<rows, night_actions, mafia_votes,
                                hmvc_tasks, hmvc_loops, handler, applied>>
            ELSE IF p.action = "mafia_confirm" /\ k \in DOMAIN rows
            THEN LET confs == append_confirmation(rows[k].confirmations, u) IN
                 /\ pending' = [mem EXCEPT ![k].confirmations = confs]
                 /\ rows' = [rows EXCEPT ![k].confirmations = confs]
                 /\ handler' = [pc |-> "confirm", key |-> k, user |-> u,
                                target |-> p.target, confs |-> confs]
                 /\ applied' = applied \cup {<<k, u>>}
                 /\ last' = Click(k, u, p.action, "recorded",
                                  u \in Range(rows[k].confirmations))
                 /\ UNCHANGED <<night_actions, mafia_votes, hmvc_tasks, hmvc_loops>>
            ELSE IF p.action = "mafia_confirm"
            THEN /\ pending' = mem
                 /\ handler' = [pc |-> "confirm", key |-> k, user |-> u,
                                target |-> p.target, confs |-> << >>]
                 /\ last' = Click(k, u, p.action, "processed", FALSE)
                 /\ UNCHANGED <<rows, night_actions, mafia_votes, hmvc_tasks,
                                hmvc_loops, applied>>
            ELSE IF p.action = "mafia_pick"
            THEN /\ mafia_votes' = SetMafiaVote(mafia_votes, u, t)
                 /\ hmvc_tasks' = hmvc_tasks + 1
                 /\ applied' = applied \cup {<<k, u>>}
                 /\ last' = Click(k, u, p.action, "recorded",
                                  u \in VoteKeys(mafia_votes))
                 /\ pending' = mem
                 /\ rows' = mem
                 /\ UNCHANGED <<night_actions, handler, hmvc_loops>>
            ELSE IF LedgerKey(p.action, RoleOf(players, u)) # ""
            THEN /\ night_actions' = RecordChoice(night_actions, p.action,
                                                  RoleOf(players, u), u, t)
                 /\ applied' = applied \cup {<<k, u>>}
                 /\ last' = Click(k, u, p.action, "recorded",
                                  HasEntry(night_actions[
                                      LedgerKey(p.action, RoleOf(players, u))], u))
                 /\ pending' = mem
                 /\ rows' = mem
                 /\ UNCHANGED <<mafia_votes, hmvc_tasks, hmvc_loops, handler>>
            ELSE /\ last' = Click(k, u, p.action, "processed", FALSE)
                 /\ pending' = mem
                 /\ UNCHANGED <<rows, night_actions, mafia_votes,
                                hmvc_tasks, hmvc_loops, handler, applied>>
    /\ vote_log' = IF mafia_votes' # mafia_votes
                    THEN Append(vote_log, <<u, t>>) ELSE vote_log
    /\ UNCHANGED <<phase, roles_config, night_seconds, phase_deadline, players,
                   next_key, now, jobs, pass, timeouts, job_ids, resets, commits, registry,
                   held, getters, tasks, games, rearmed>>

\* cb_handler, mafia_confirm branch, after its awaits: the unanimity check
cb_handler_confirm ==
    /\ handler.pc = "confirm"
    /\ ~Returning
    /\ handler' = Idle
    /\ IF MafiaIds(players) \subseteq Range(handler.confs) /\ handler.target # None
       THEN /\ night_actions' = [night_actions EXCEPT !["mafia_confirmed"] =
                                    Append(@, <<0, handler.target>>)]
            /\ pending' = DictDelete(pending, handler.key)
            /\ commits' = Append(commits, [key |-> handler.key, by |-> "confirm"])
            /\ last' = NoClick
       ELSE /\ last' = NoClick
            /\ UNCHANGED <<night_actions, pending, commits, vote_log, registry>>
    /\ UNCHANGED <<phase, roles_config, night_seconds, phase_deadline, players,
                   mafia_votes, next_key, now, jobs, pass, hmvc_tasks, hmvc_loops, timeouts,
                   clicks, applied, job_ids, resets, vote_log, registry,
                   held, getters, tasks, games, rearmed>>
    /\ rows' = pending'

\* ------------------------------------------------- mafia consensus protocol
\* the task created by the mafia_pick branch, run by the event loop: up to
\* the first insert of the proposal and the first message sent
handle_mafia_votes_and_confirm ==
    /\ hmvc_tasks > 0
    /\ ~Returning
    /\ hmvc_tasks' = hmvc_tasks - 1
    /\ IF MafiaIds(players) # {} /\ MafiaIds(players) \subseteq VoteKeys(mafia_votes)
       THEN /\ next_key < MaxKeys
            /\ next_key' = next_key + 1
            /\ pending' = [k \in DOMAIN pending \cup {next_key + 1} |->
                             IF k \in DOMAIN pending THEN pending[k]
                             ELSE PendingAction("mafia_confirm", None,
                                      most_common(VoteValues(mafia_votes)),
                                      now + CONFIRM_TIMEOUT)]
            /\ hmvc_loops' = hmvc_loops \cup
                   {[key |-> next_key + 1,
                     target |-> most_common(VoteValues(mafia_votes))]}
            /\ last' = NoClick
       ELSE /\ last' = NoClick
            /\ UNCHANGED <<next_key, pending, hmvc_loops>>
    /\ UNCHANGED <<phase, roles_config, night_seconds, phase_deadline, players,
                   night_actions, mafia_votes, now, jobs, pass, timeouts,
                   handler, clicks, applied, job_ids, resets, commits, vote_log, registry,
                   held, getters, tasks, games, rearmed>>
    /\ rows' = pending'

\* the rest of the task: after each message sent the proposal is inserted
\* again with the extra it was created with (every iteration writes the same
\* record, so the loop is one step), then the timeout task is created
handle_mafia_votes_notify(l) ==
    /\ l \in hmvc_loops
    /\ ~Returning
    /\ hmvc_loops' = hmvc_loops \ {l}
    /\ pending' = [k \in DOMAIN pending \cup {l.key} |->
                     IF k = l.key
                     THEN PendingAction("mafia_confirm", None, l.target,
                                        now + CONFIRM_TIMEOUT)
                     ELSE pending[k]]
    /\ timeouts' = timeouts \cup {[key |-> l.key, due |-> now + CONFIRM_TIMEOUT]}
    /\ last' = NoClick
    /\ UNCHANGED <<phase, roles_config, night_seconds, phase_deadline, players,
                   night_actions, mafia_votes, next_key, now, jobs, pass,
                   hmvc_tasks, handler, clicks, applied, job_ids, resets, commits, vote_log, registry,
                   held, getters, tasks, games, rearmed>>
    /\ rows' = pending'

\* `last` after the fallback of the confirmation timeout
Fallback(k) == [NoClick EXCEPT !.op = "fallback", !.key = k]

mafia_confirm_timeout_drop(tk) ==
    /\ tk \in timeouts
    /\ now >= tk.due
    /\ ~Returning
    /\ timeouts' = timeouts \ {tk}
    /\ pending' = DictDelete(pending, tk.key)
    /\ last' = NoClick
    /\ UNCHANGED <<phase, roles_config, night_seconds, phase_deadline, players,
                   night_actions, mafia_votes, next_key, now, jobs, pass,
                   hmvc_tasks, hmvc_loops, handler, clicks, applied, job_ids, resets, commits, vote_log, registry,
                   held, getters, tasks, games, rearmed>>
    /\ rows' = pending'

\* _mafia_confirm_timeout after its sleep
mafia_confirm_timeout(tk) ==
    /\ tk \in timeouts
    /\ now >= tk.due
    /\ ~Returning
    /\ timeouts' = timeouts \ {tk}
    /\ IF tk.key \notin DOMAIN pending
       THEN /\ last' = NoClick
            /\ UNCHANGED <<pending, night_actions, commits, vote_log, registry>>
       ELSE /\ pending' = DictDelete(pending, tk.key)
            /\ IF MafiaIds(players) \subseteq Range(pending[tk.key].confirmations)
               THEN /\ last' = NoClick
                    /\ UNCHANGED <<night_actions, commits, vote_log, registry>>
               ELSE IF mafia_votes # << >>
               THEN /\ night_actions' =
                         [night_actions EXCEPT !["mafia_confirmed"] =
                             Append(@, <<0, most_common(VoteValues(mafia_votes))>>)]
                    /\ commits' = Append(commits, [key |-> tk.key, by |-> "timeout"])
                    /\ last' = Fallback(tk.key)
               ELSE /\ last' = NoClick
                    /\ UNCHANGED <<night_actions, commits, vote_log, registry>>
    /\ UNCHANGED <<phase, roles_config, night_seconds, phase_deadline, players,
                   mafia_votes, next_key, now, jobs, pass, hmvc_tasks, hmvc_loops, handler,
                   clicks, applied, job_ids, resets, vote_log, registry,
                   held, getters, tasks, games, rearmed>>
    /\ rows' = pending'

\* ----------------------------------------------- check_win_conditions_sync
TownUnlessMafia(ps) ==
    LET mafias == {u \in Alive(ps) : ps[u].role_key # NoRole
                                     /\ Faction(ps[u].role_key) = "mafia"}
        towns == {u \in Alive(ps) : ps[u].role_key # NoRole
                                    /\ Faction(ps[u].role_key) = "town"}
        sk == {u \in Alive(ps) : ps[u].role_key = "asesino"}
    IN IF mafias = {} THEN "town"
       ELSE IF Cardinality(mafias) >= Cardinality(towns) THEN "mafia"
       ELSE IF sk # {} /\ Cardinality(Alive(ps)) = 1 THEN "serial"
       ELSE ""

check_win_conditions_sync(ps) ==
    LET mafias == {u \in Alive(ps) : ps[u].role_key # NoRole
                                     /\ Faction(ps[u].role_key) = "mafia"}
        towns == {u \in Alive(ps) : ps[u].role_key # NoRole
                                    /\ Faction(ps[u].role_key) = "town"}
        sk == {u \in Alive(ps) : ps[u].role_key = "asesino"}
    IN IF mafias = {} /\ sk = {} THEN "town"
       ELSE IF mafias # {} /\ Cardinality(mafias) >= Cardinality(towns) THEN "mafia"
       ELSE IF sk # {} /\ Cardinality(Alive(ps)) = 1 THEN "serial"
       ELSE ""

\* ----------------------------------------------------------- resolve_night
Kill(ps, u) == [ps EXCEPT ![u].alive = FALSE]

\* "apply blocks": the targets of living blockers are marked blocked
ApplyBlocks(ps, na) ==
    LET blocked == {na["block"][i][2] : i \in
                      {j \in DOMAIN na["block"] :
                          /\ na["block"][j][1] \in DOMAIN ps
                          /\ ps[na["block"][j][1]].alive}}
    IN [u \in DOMAIN ps |-> IF u \in blocked THEN [ps[u] EXCEPT !.blocked = TRUE]
                            ELSE ps[u]]

\* an actor that is alive acts, blocked or not
ActingThoughBlocked(ps, a) == a \in DOMAIN ps /\ ps[a].alive
Acting(ps, a) == a \in DOMAIN ps /\ ps[a].alive /\ ~ps[a].blocked

\* the targets of the entries of one kind whose actor is alive and not blocked
RECURSIVE ActingTargets(_, _)
ActingTargets(ps, list) ==
    IF list = << >> THEN << >>
    ELSE (IF Acting(ps, Head(list)[1]) THEN <<Head(list)[2]>> ELSE << >>)
         \o ActingTargets(ps, Tail(list))

\* the attack list: the mafia's, then the vigilante shots, then the serial kills
Attacks(ps, na, mv) ==
    LET mafia_target == IF mv # << >> THEN most_common(VoteValues(mv)) ELSE None
        source == {u \in DOMAIN ps : /\ ps[u].role_key \in {"mafia", "padrino", "consorte"}
                                     /\ ps[u].alive /\ ~ps[u].blocked}
    IN (IF mafia_target # None /\ source # {} THEN <<mafia_target>> ELSE << >>)
       \o ActingTargets(ps, na["vigilante_shot"])
       \o ActingTargets(ps, na["serial_kill"])

\* guards[target] = actor: the last acting guard entry of a target
GuardOf(ps, na, t) ==
    LET idx == {i \in DOMAIN na["guard"] : /\ Acting(ps, na["guard"][i][1])
                                           /\ na["guard"][i][2] = t}
    IN IF idx = {} THEN None
       ELSE na["guard"][CHOOSE i \in idx : \A j \in idx : j <= i][1]

RECURSIVE ApplyAttacksUnhealed(_, _, _, _)
ApplyAttacksUnhealed(ps, attacks, ps0, na) ==
    IF attacks = << >> THEN ps
    ELSE LET t == Head(attacks)
             guard == GuardOf(ps0, na, t)
             next == IF t \notin DOMAIN ps \/ ~ps[t].alive THEN ps
                     ELSE IF guard # None /\ guard \in DOMAIN ps /\ ps[guard].alive
                          THEN Kill(ps, guard)
                     ELSE Kill(ps, t)
         IN ApplyAttacksUnhealed(next, Tail(attacks), ps0, na)

\* the attack loop: ps0 is the state the heals and guards were collected in
RECURSIVE ApplyAttacks(_, _, _, _)
ApplyAttacks(ps, attacks, ps0, na) ==
    IF attacks = << >> THEN ps
    ELSE LET t == Head(attacks)
             heals == Range(ActingTargets(ps0, na["heal"]))
             guard == GuardOf(ps0, na, t)
             next == IF t \notin DOMAIN ps \/ ~ps[t].alive THEN ps
                     ELSE IF t \in heals THEN ps
                     ELSE IF guard # None /\ guard \in DOMAIN ps /\ ps[guard].alive
                          THEN Kill(ps, guard)
                     ELSE Kill(ps, t)
         IN ApplyAttacks(next, Tail(attacks), ps0, na)

\* blackmail: living targets of living, unblocked actors are silenced
ApplyBlackmail(ps, na) ==
    LET hit == {t \in Range(ActingTargets(ps, na["blackmail"])) :
                   t \in DOMAIN ps /\ ps[t].alive}
    IN [u \in DOMAIN ps |-> IF u \in hit THEN [ps[u] EXCEPT !.silenced = TRUE]
                            ELSE ps[u]]

\* resolve_night up to its first await: the ledger applied to the players
resolve_night(ps, na, mv) ==
    LET ps0 == ApplyBlocks(ps, na)
    IN ApplyBlackmail(ApplyAttacks(ps0, Attacks(ps0, na, mv), ps0, na), na)

ClearBlocked(ps) == [u \in DOMAIN ps |-> [ps[u] EXCEPT !.blocked = FALSE]]

Job(name, due) == [name |-> name, due |-> due]

\* the job queue runs job_end_night: resolve_night up to the summary message
job_end_night(j) ==
    /\ j \in jobs /\ j.name = "job_end_night" /\ now >= j.due
    /\ pass.pc = "idle"
    /\ jobs' = jobs \ {j}
    /\ players' = resolve_night(players, night_actions, mafia_votes)
    /\ pass' = [pc |-> "rn_summary"]
    /\ last' = NoClick
    /\ UNCHANGED <<phase, roles_config, night_seconds, phase_deadline,
                   night_actions, mafia_votes, pending, next_key, now,
                   hmvc_tasks, hmvc_loops, timeouts, handler, clicks, applied,
                   job_ids, resets, commits, vote_log, registry,
                   held, getters, rows, tasks, games, rearmed>>

\* resolve_night after the summary: cleanup and win check; without a winner it
\* returns and job_end_night opens the day
resolve_night_cleanup ==
    /\ pass.pc = "rn_summary"
    /\ night_actions' = EmptyLedger
    /\ mafia_votes' = << >>
    /\ vote_log' = << >>
    /\ players' = ClearBlocked(players)
    /\ IF check_win_conditions_sync(ClearBlocked(players)) # ""
       THEN /\ pass' = [pc |-> "rn_winner"]
            /\ phase_deadline' = None
            /\ UNCHANGED phase
       ELSE /\ pass' = [pc |-> "en_day"]
            /\ phase' = "day"
            /\ phase_deadline' = now + DAY_SECONDS
    /\ last' = NoClick
    /\ UNCHANGED <<roles_config, night_seconds, pending, next_key, now, jobs,
                   hmvc_tasks, hmvc_loops, timeouts, handler, clicks, applied,
                   job_ids, resets, commits, registry,
                   held, getters, rows, tasks, games, rearmed>>

\* resolve_night after announcing the winner: the session ends, it returns
resolve_night_winner ==
    /\ pass.pc = "rn_winner"
    /\ phase' = "inactive"
    /\ pass' = [pc |-> "en_back"]
    /\ last' = NoClick
    /\ UNCHANGED <<roles_config, night_seconds, phase_deadline, players,
                   night_actions, mafia_votes, pending, next_key, now, jobs,
                   hmvc_tasks, hmvc_loops, timeouts, handler, clicks, applied,
                   job_ids, resets, commits, vote_log, registry,
                   held, getters, rows, tasks, games, rearmed>>

\* job_end_night after resolve_night returned with a winner
job_end_night_day ==
    /\ pass.pc = "en_back"
    /\ phase' = "day"
    /\ phase_deadline' = now + DAY_SECONDS
    /\ pass' = [pc |-> "en_day"]
    /\ last' = NoClick
    /\ UNCHANGED <<roles_config, night_seconds, players, night_actions,
                   mafia_votes, pending, next_key, now, jobs, hmvc_tasks, hmvc_loops,
                   timeouts, handler, clicks, applied, job_ids, resets, commits, vote_log, registry,
                   held, getters, rows, tasks, games, rearmed>>

\* job_end_night after the day message: the end of the day is armed
job_end_night_arm ==
    /\ pass.pc = "en_day"
    /\ jobs' = jobs \cup {Job("job_end_day", now + DAY_SECONDS)}
    /\ pass' = Idle
    /\ last' = NoClick
    /\ UNCHANGED <<phase, roles_config, night_seconds, phase_deadline, players,
                   night_actions, mafia_votes, pending, next_key, now,
                   hmvc_tasks, hmvc_loops, timeouts, handler, clicks, applied,
                   job_ids, resets, commits, vote_log, registry,
                   held, getters, rows, tasks, games, rearmed>>

\* ------------------------------------------------------------- job_end_day
\* one vote_group button per living player
vote_buttons(pend, nk, ps, t) ==
    LET targets == SortedSeq(Alive(ps))
    IN [k \in DOMAIN pend \cup (nk + 1)..(nk + Len(targets)) |->
          IF k \in DOMAIN pend THEN pend[k]
          ELSE PendingAction("vote_group", None, targets[k - nk], t + VOTE_WINDOW)]

job_end_day(j) ==
    /\ j \in jobs /\ j.name = "job_end_day" /\ now >= j.due
    /\ pass.pc = "idle"
    /\ next_key + Cardinality(Alive(players)) <= MaxKeys
    /\ phase' = "voting"
    /\ phase_deadline' = now + VOTE_WINDOW
    /\ pending' = vote_buttons(pending, next_key, players, now)
    /\ next_key' = next_key + Cardinality(Alive(players))
    /\ jobs' = (jobs \ {j}) \cup {Job("job_resolve_votes", now + VOTE_WINDOW)}
    /\ last' = NoClick
    /\ UNCHANGED <<roles_config, night_seconds, players, night_actions,
                   mafia_votes, now, pass, hmvc_tasks, hmvc_loops, timeouts, handler,
                   clicks, applied, job_ids, resets, commits, vote_log, registry,
                   held, getters, tasks, games, rearmed>>
    /\ rows' = pending'

\* ------------------------------------------------------- resolve_votes_job
VoteTargets(na) == [i \in DOMAIN na["vote"] |-> na["vote"][i][2]]

\* the targets that share the highest count
TopTargets(votes) ==
    LET cnt(v) == Cardinality({i \in DOMAIN votes : votes[i] = v})
    IN {v \in Range(votes) : cnt(v) = cnt(most_common(votes))}

LynchOnTie(ps, votes) ==
    IF most_common(votes) \in DOMAIN ps THEN Kill(ps, most_common(votes)) ELSE ps

\* the lynching: a single top target that is a living player dies
Lynch(ps, votes) ==
    LET chosen == most_common(votes)
    IN IF Cardinality(TopTargets(votes)) = 1 /\ chosen \in DOMAIN ps /\ ps[chosen].alive
       THEN Kill(ps, chosen)
       ELSE ps

\* the win check after the tally, and the phase change without a winner
VotesChecked(ps) ==
    IF check_win_conditions_sync(ps) # ""
    THEN /\ pass' = [pc |-> "rv_winner"]
         /\ UNCHANGED phase
    ELSE /\ pass' = [pc |-> "rv_night"]
         /\ phase' = "night"

\* the job queue runs job_resolve_votes: resolve_votes_job up to its first await
resolve_votes_job(j) ==
    /\ j \in jobs /\ j.name = "job_resolve_votes" /\ now >= j.due
    /\ pass.pc = "idle"
    /\ jobs' = jobs \ {j}
    /\ LET votes == VoteTargets(night_actions) IN
       IF votes = << >>
       THEN /\ pass' = [pc |-> "rv_novotes"]
            /\ UNCHANGED <<players, phase>>
       ELSE /\ players' = Lynch(players, votes)
            /\ IF Cardinality(TopTargets(votes)) > 1 \/ players' # players
               THEN /\ pass' = [pc |-> "rv_tallied"]
                    /\ UNCHANGED phase
               ELSE VotesChecked(players)
    /\ last' = NoClick
    /\ UNCHANGED <<roles_config, night_seconds, phase_deadline, night_actions,
                   mafia_votes, pending, next_key, now, hmvc_tasks, hmvc_loops, timeouts,
                   handler, clicks, applied, job_ids, resets, commits, vote_log, registry,
                   held, getters, rows, tasks, games, rearmed>>

\* resolve_votes_job after the tie or lynch message
resolve_votes_check ==
    /\ pass.pc = "rv_tallied"
    /\ VotesChecked(players)
    /\ last' = NoClick
    /\ UNCHANGED <<roles_config, night_seconds, phase_deadline, players,
                   night_actions, mafia_votes, pending, next_key, now, jobs,
                   hmvc_tasks, hmvc_loops, timeouts, handler, clicks, applied,
                   job_ids, resets, commits, vote_log, registry,
                   held, getters, rows, tasks, games, rearmed>>

\* resolve_votes_job after announcing the winner
resolve_votes_winner ==
    /\ pass.pc = "rv_winner"
    /\ phase' = "inactive"
    /\ pass' = Idle
    /\ last' = NoClick
    /\ UNCHANGED <<roles_config, night_seconds, phase_deadline, players,
                   night_actions, mafia_votes, pending, next_key, now, jobs,
                   hmvc_tasks, hmvc_loops, timeouts, handler, clicks, applied,
                   job_ids, resets, commits, vote_log, registry,
                   held, getters, rows, tasks, games, rearmed>>

\* resolve_votes_job on its way to the night: prompts sent, night end armed
resolve_votes_night ==
    /\ pass.pc \in {"rv_novotes", "rv_night"}
    /\ next_key + Cardinality(PromptButtons(players)) <= MaxKeys
    /\ phase' = "night"
    /\ pending' = prompt_night(pending, next_key, players, now)
    /\ next_key' = next_key + Cardinality(PromptButtons(players))
    /\ jobs' = jobs \cup {Job("job_end_night", now + night_seconds)}
    /\ pass' = Idle
    /\ last' = NoClick
    /\ UNCHANGED <<roles_config, night_seconds, phase_deadline, players,
                   night_actions, mafia_votes, now, hmvc_tasks, hmvc_loops, timeouts,
                   handler, clicks, applied, job_ids, resets, commits, vote_log, registry,
                   held, getters, tasks, games, rearmed>>
    /\ rows' = pending'

\* -------------------------------------------------------------------- time
\* the instants at which the program's view of time changes
EventTimes ==
    {j.due : j \in jobs} \cup {tk.due : tk \in timeouts}
    \cup {pending[k].expires_at + 1 : k \in DOMAIN pending}

\* time passes while nothing is runnable: no due callback, no task in flight
Tick ==
    /\ pass.pc = "idle"
    /\ handler.pc = "idle"
    /\ hmvc_tasks = 0
    /\ hmvc_loops = {}
    /\ \A j \in jobs : now < j.due
    /\ \A tk \in timeouts : now < tk.due
    /\ \E t \in EventTimes :
          /\ t > now
          /\ t <= MaxTime
          /\ \A x \in EventTimes : x > now => t <= x
          /\ now' = t
    /\ last' = NoClick
    /\ UNCHANGED <<phase, roles_config, night_seconds, phase_deadline, players,
                   night_actions, mafia_votes, pending, next_key, jobs, pass,
                   hmvc_tasks, hmvc_loops, timeouts, handler, clicks, applied,
                   job_ids, resets, commits, vote_log, registry,
                   held, getters, rows, tasks, games, rearmed>>

\* the user a button press comes from: the addressee or somebody else
Clickers(k) ==
    IF k \notin DOMAIN pending THEN {1}
    ELSE IF pending[k].actor # None
    THEN {pending[k].actor, (pending[k].actor % MaxUsers) + 1}
    ELSE 1..MaxVoters

ButtonTarget(k) == IF k \in DOMAIN pending THEN pending[k].target ELSE None

Next ==
    \/ \E u \in Users : u <= NextUser /\ cmd_unirme(u)
    \/ cmd_empezar
    \/ \E k \in 1..next_key : \E u \in Clickers(k) : cb_handler(k, u, ButtonTarget(k))
    \/ cb_handler_confirm
    \/ handle_mafia_votes_and_confirm
    \/ \E l \in hmvc_loops : handle_mafia_votes_notify(l)
    \/ \E tk \in timeouts : mafia_confirm_timeout(tk)
    \/ \E j \in jobs : job_end_night(j)
    \/ resolve_night_cleanup
    \/ resolve_night_winner
    \/ job_end_night_day
    \/ job_end_night_arm
    \/ \E j \in jobs : job_end_day(j)
    \/ \E j \in jobs : resolve_votes_job(j)
    \/ resolve_votes_check
    \/ resolve_votes_winner
    \/ resolve_votes_night
    \/ Tick

\* a fresh session, nobody joined yet: one of the three configurations with
\* the default night, or the night roles with the long night
Init ==
    \/ InitWith({DefaultConfig, KillerConfig, PairConfig}, {NIGHT_DEFAULT})
    \/ InitWith({KillerConfig}, {NIGHT_LONG})

Spec == Init /\ [][Next]_vars

\* ------------------------------------------------- the win check on its own
\* role keys the players of a checked session may hold: two of the mafia,
\* two of the town, the neutral killer, and no role
WinRoles == {"mafia", "padrino", "doctor", "ciudadano", "asesino", NoRole}

WinPlayers ==
    UNION {[1..n -> [role_key : WinRoles, alive : BOOLEAN, blocked : {FALSE},
                     silenced : {FALSE}]] : n \in 0..MaxWinPlayers}

\* `last` after a call of check_win_conditions_sync that returned w
WinChecked(w) == [NoClick EXCEPT !.op = "check_win", !.res = w]

\* a started session with any roles and alive flags
InitWin ==
    /\ phase = "day"
    /\ roles_config = DefaultConfig
    /\ night_seconds = NIGHT_DEFAULT
    /\ phase_deadline = None
    /\ players \in WinPlayers
    /\ night_actions = EmptyLedger
    /\ mafia_votes = << >>
    /\ pending = << >>
    /\ next_key = 0
    /\ now = 0
    /\ jobs = {}
    /\ pass = Idle
    /\ hmvc_tasks = 0
    /\ hmvc_loops = {}
    /\ timeouts = {}
    /\ handler = Idle
    /\ clicks = 0
    /\ applied = {}
    /\ last = NoClick
    /\ job_ids = {}
    /\ resets = 0
    /\ commits = << >>
    /\ vote_log = << >>
    /\ registry = "memory"
    /\ held = IF registry = "memory" THEN FirstObject ELSE None
    /\ getters = NoCalls
    /\ rows = pending
    /\ tasks = NoTasks
    /\ games = << >>
    /\ rearmed = {}

\* winner = check_win_conditions_sync(g)
check_win ==
    /\ last = NoClick
    /\ last' = WinChecked(check_win_conditions_sync(players))
    /\ UNCHANGED <<phase, roles_config, night_seconds, phase_deadline, players,
                   night_actions, mafia_votes, pending, next_key, now, jobs,
                   pass, hmvc_tasks, hmvc_loops, timeouts, handler, clicks, applied,
                   job_ids, resets, commits, vote_log, registry,
                   held, getters, rows, tasks, games, rearmed>>

NextWin == check_win

SpecWin == InitWin /\ [][NextWin]_vars

\* ------------------------------------------------ the role draw on its own
\* roles_config as the games table may hold it: counts of a mafia role, a
\* town role with a night action, and the filler
AssignConfigs ==
    {<< <<"mafia", a>>, <<"doctor", b>>, <<"ciudadano", c>> >> :
        a \in 0..MaxCount, b \in 0..MaxCount, c \in 0..MaxCount}

InitAssign == InitWith(AssignConfigs, {NIGHT_DEFAULT})

NextAssign ==
    \/ \E u \in Users : u <= NextUser /\ cmd_unirme(u)
    \/ cmd_empezar

SpecAssign == InitAssign /\ [][NextAssign]_vars

\* ------------------------------------------------------ persist and load
\* int(bool(x)): a flag as the players table holds it
IntOfBool(b) == IF b THEN 1 ELSE 0

\* a flag read back from the players table
BoolOfInt(i) == i # 0

\* json.dumps of roles_config: the members of one JSON object, in dict order
json_dumps(cfg) == [i \in DOMAIN cfg |-> [name |-> cfg[i][1], value |-> cfg[i][2]]]

\* json.loads of that text: a dict in the order of the members
json_loads(js) == [i \in DOMAIN js |-> <<js[i].name, js[i].value>>]

\* the row _persist_game_async upserts into the games table
GamesRow(ph, cfg, ns, dl) ==
    [phase |-> ph, roles_config |-> json_dumps(cfg), night_seconds |-> ns,
     day_seconds |-> DAY_SECONDS, periodic_reminder_seconds |-> REMINDER_SECONDS,
     phase_deadline |-> dl]

FlaglessPlayerRow(u, p) ==
    [user_id |-> u, role_key |-> p.role_key, alive |-> IntOfBool(p.alive),
     blocked |-> 0, silenced |-> 0]

\* the row _persist_game_async inserts into the players table for player u
PlayerRow(u, p) ==
    [user_id |-> u, role_key |-> p.role_key, alive |-> IntOfBool(p.alive),
     blocked |-> IntOfBool(p.blocked), silenced |-> IntOfBool(p.silenced)]

PlayerRows(ps) == {PlayerRow(u, ps[u]) : u \in DOMAIN ps}

\* the rows _persist_game_async inserts into the pending_actions table
PendingRows(pend) ==
    {[key |-> k, action |-> pend[k].action, actor_id |-> pend[k].actor,
      extra_json |-> [target |-> pend[k].target,
                      confirmations |-> pend[k].confirmations],
      expires_at |-> pend[k].expires_at] : k \in DOMAIN pend}

\* Game.from_db_row(row, players): the session built from a games row and
\* its players rows
from_db_row(row, prows) ==
    [phase |-> row.phase,
     roles_config |-> json_loads(row.roles_config),
     night_seconds |-> row.night_seconds,
     day_seconds |-> row.day_seconds,
     periodic_reminder_seconds |-> row.periodic_reminder_seconds,
     phase_deadline |-> row.phase_deadline,
     players |-> [u \in {r.user_id : r \in prows} |->
                     LET r == CHOOSE x \in prows : x.user_id = u
                     IN [role_key |-> r.role_key, alive |-> BoolOfInt(r.alive),
                         blocked |-> BoolOfInt(r.blocked),
                         silenced |-> BoolOfInt(r.silenced)]]]

\* _load_game_sync: the pending actions of the loaded session
LoadPending(rs) ==
    [k \in {r.key : r \in rs} |->
        LET r == CHOOSE x \in rs : x.key = k
        IN [action |-> r.action, actor |-> r.actor_id,
            target |-> r.extra_json.target,
            confirmations |-> r.extra_json.confirmations,
            expires_at |-> r.expires_at]]

\* the session _load_game_sync returns right after _persist_game_async
Loaded ==
    from_db_row(GamesRow(phase, roles_config, night_seconds, phase_deadline),
                PlayerRows(players))

\* `last` after the session was replaced by the loaded one
Resynced == [NoClick EXCEPT !.op = "resync"]

StorePlayers ==
    UNION {[1..n -> [role_key : {NoRole, "mafia", "escort"}, alive : BOOLEAN,
                     blocked : BOOLEAN, silenced : BOOLEAN]] :
              n \in 0..MaxStorePlayers}

\* a session in any phase, with any flags, with or without a night prompt
InitStore ==
    /\ phase \in {"lobby", "night", "day", "voting", "inactive"}
    /\ roles_config \in {DefaultConfig, KillerConfig}
    /\ night_seconds \in {NIGHT_DEFAULT, NIGHT_LONG}
    /\ phase_deadline \in {None, NIGHT_DEFAULT}
    /\ players \in StorePlayers
    /\ night_actions = EmptyLedger
    /\ mafia_votes = << >>
    /\ pending \in {<< >>, <<PendingAction("block", 1, 2, PENDING_TTL)>>}
    /\ next_key = Len(pending)
    /\ now = 0
    /\ jobs = {}
    /\ pass = Idle
    /\ hmvc_tasks = 0
    /\ hmvc_loops = {}
    /\ timeouts = {}
    /\ handler = Idle
    /\ clicks = 0
    /\ applied = {}
    /\ last = NoClick
    /\ job_ids = {}
    /\ resets = 0
    /\ commits = << >>
    /\ vote_log = << >>
    /\ registry = "memory"
    /\ held = IF registry = "memory" THEN FirstObject ELSE None
    /\ getters = NoCalls
    /\ rows = pending
    /\ tasks = NoTasks
    /\ games = << >>
    /\ rearmed = {}

\* _persist_game_async, then _load_game_sync and the replacement of the
\* session in memory by the loaded one (its transient fields are fresh)
resync ==
    /\ last = NoClick
    /\ phase' = Loaded.phase
    /\ roles_config' = Loaded.roles_config
    /\ night_seconds' = Loaded.night_seconds
    /\ phase_deadline' = Loaded.phase_deadline
    /\ players' = Loaded.players
    /\ pending' = LoadPending(PendingRows(pending))
    /\ night_actions' = EmptyLedger
    /\ mafia_votes' = << >>
    /\ vote_log' = << >>
    /\ job_ids' = {}
    /\ last' = Resynced
    /\ UNCHANGED <<next_key, now, jobs, pass, hmvc_tasks, hmvc_loops, timeouts, handler,
                   clicks, applied, resets, commits, registry,
                   held, getters, tasks, games, rearmed>>
    /\ rows' = pending'

NextStore == resync

SpecStore == InitStore /\ [][NextStore]_vars

\* ------------------------------------------------- create_game and get_game
\* `last` after create_game: res tells how it ended
CreateResult(res) == [NoClick EXCEPT !.op = "create_game", !.res = res]

\* `last` after get_game
GameGot == [NoClick EXCEPT !.op = "get_game"]

\* a session in memory, a session that is in the store only (the session
\* variables hold what was persisted) or no session at all
InitCreate ==
    /\ registry \in {"memory", "store", "none"}
    /\ IF registry = "none"
       THEN /\ phase = "lobby"
            /\ roles_config = DefaultConfig
            /\ night_seconds = NIGHT_DEFAULT
            /\ phase_deadline = None
            /\ players = << >>
            /\ pending = << >>
       ELSE /\ phase \in {"lobby", "night", "day", "voting", "inactive"}
            /\ roles_config \in {DefaultConfig, KillerConfig}
            /\ night_seconds \in {NIGHT_DEFAULT, NIGHT_LONG}
            /\ phase_deadline \in {None, NIGHT_DEFAULT}
            /\ players \in StorePlayers
            /\ pending \in {<< >>, <<PendingAction("block", 1, 2, PENDING_TTL)>>}
    /\ night_actions = EmptyLedger
    /\ mafia_votes = << >>
    /\ next_key = Len(pending)
    /\ now = 0
    /\ jobs = {}
    /\ pass = Idle
    /\ hmvc_tasks = 0
    /\ hmvc_loops = {}
    /\ timeouts = {}
    /\ handler = Idle
    /\ clicks = 0
    /\ applied = {}
    /\ last = NoClick
    /\ job_ids = {}
    /\ resets = 0
    /\ commits = << >>
    /\ vote_log = << >>
    /\ held = IF registry = "memory" THEN FirstObject ELSE None
    /\ getters = NoCalls
    /\ rows = pending
    /\ tasks = NoTasks
    /\ games = << >>
    /\ rearmed = {}

\* get_game for a session that is in the store only: _load_game_sync and
\* the entry in self._games
rehydrate ==
    /\ registry' = "memory"
    /\ phase' = Loaded.phase
    /\ roles_config' = Loaded.roles_config
    /\ night_seconds' = Loaded.night_seconds
    /\ phase_deadline' = Loaded.phase_deadline
    /\ players' = Loaded.players
    /\ pending' = LoadPending(PendingRows(pending))
    /\ night_actions' = EmptyLedger
    /\ mafia_votes' = << >>
    /\ vote_log' = << >>
    /\ job_ids' = {}
    /\ held' = FirstObject
    /\ UNCHANGED <<next_key, now, jobs, pass, hmvc_tasks, hmvc_loops, timeouts,
                   handler, clicks, applied, resets, commits, getters, rows,
                   tasks, games, rearmed>>

get_game ==
    /\ last' = GameGot
    /\ IF registry = "store" THEN rehydrate ELSE UNCHANGED
          <<phase, roles_config, night_seconds, phase_deadline, players,
            night_actions, mafia_votes, pending, next_key, now, jobs, pass,
            hmvc_tasks, hmvc_loops, timeouts, handler, clicks, applied,
            job_ids, resets, commits, vote_log, registry,
            held, getters, rows, tasks, games, rearmed>>

create_game_afresh ==
    /\ registry' = "memory"
    /\ phase' = "lobby"
    /\ roles_config' = DefaultConfig
    /\ night_seconds' = NIGHT_DEFAULT
    /\ phase_deadline' = None
    /\ players' = << >>
    /\ pending' = << >>
    /\ last' = CreateResult(IF registry = "none" THEN "created" ELSE "replaced")
    /\ held' = FirstObject
    /\ rows' = << >>
    /\ UNCHANGED <<night_actions, mafia_votes, next_key, now, jobs, pass,
                   hmvc_tasks, hmvc_loops, timeouts, handler, clicks, applied,
                   job_ids, resets, commits, vote_log, getters, tasks, games,
                   rearmed>>

\* GameManager.create_game
create_game ==
    IF registry = "memory"
    THEN /\ last' = CreateResult("exists in memory")
         /\ UNCHANGED <<phase, roles_config, night_seconds, phase_deadline,
                        players, night_actions, mafia_votes, pending, next_key,
                        now, jobs, pass, hmvc_tasks, hmvc_loops, timeouts,
                        handler, clicks, applied, job_ids, resets, commits,
                        vote_log, registry, held, getters, rows, tasks, games,
                        rearmed>>
    ELSE IF registry = "store"
    THEN /\ last' = CreateResult("exists in DB")
         /\ rehydrate
    ELSE /\ last' = CreateResult("created")
         /\ registry' = "memory"
         /\ phase' = "lobby"
         /\ roles_config' = DefaultConfig
         /\ night_seconds' = NIGHT_DEFAULT
         /\ phase_deadline' = None
         /\ players' = << >>
         /\ pending' = << >>
         /\ held' = FirstObject
         /\ rows' = << >>
         /\ UNCHANGED <<night_actions, mafia_votes, next_key, now, jobs, pass,
                        hmvc_tasks, hmvc_loops, timeouts, handler, clicks,
                        applied, job_ids, resets, commits, vote_log, getters,
                        tasks, games, rearmed>>

NextCreate ==
    \/ create_game
    \/ get_game

SpecCreate == InitCreate /\ [][NextCreate]_vars

\* ------------------------------------------------------------ the restart
\* the job functions game_manager imports from game_engine: the import fails
\* (game_engine defines none of them) and every name is set to None
JobFunctions == {}

\* remaining = deadline - now, 1 when that is negative
Remaining(dl) == IF dl - now < 0 THEN 1 ELSE dl - now

\* game_manager.reschedule_jobs_on_startup: the callbacks armed for a session
\* in phase ph with deadline dl
reschedule_jobs_on_startup(ph, dl) ==
    IF ph = "night" /\ dl # None
    THEN (IF "job_end_night" \in JobFunctions
          THEN {[name |-> "job_end_night", due |-> now + Remaining(dl)]} ELSE {})
    ELSE IF ph = "day" /\ dl # None
    THEN (IF "job_end_day" \in JobFunctions
          THEN {[name |-> "job_end_day", due |-> now + Remaining(dl)]} ELSE {})
    ELSE {}

\* the names under which the re-arm pass keeps the job handles
rescheduled_ids(ph, dl) ==
    IF ph = "night" /\ dl # None
    THEN (IF "job_end_night" \in JobFunctions THEN {"night_end"} ELSE {})
         \cup (IF "job_reminder" \in JobFunctions THEN {"reminder"} ELSE {})
    ELSE IF ph = "day" /\ dl # None
    THEN (IF "job_end_day" \in JobFunctions THEN {"day_end"} ELSE {})
         \cup (IF "job_reminder" \in JobFunctions THEN {"reminder"} ELSE {})
    ELSE {}

\* `last` after the start of the process
Restarted == [NoClick EXCEPT !.op = "restart"]

\* the process is down and the session is in the store, in any phase, with or
\* without a night prompt
InitRestart ==
    /\ registry = "store"
    /\ phase \in {"lobby", "night", "day", "voting", "inactive"}
    /\ roles_config = DefaultConfig
    /\ night_seconds = NIGHT_DEFAULT
    /\ phase_deadline \in {None, NIGHT_DEFAULT}
    /\ players \in StorePlayers
    /\ night_actions = EmptyLedger
    /\ mafia_votes = << >>
    /\ pending \in {<< >>, <<PendingAction("block", 1, 2, PENDING_TTL)>>}
    /\ next_key = Len(pending)
    /\ now = 0
    /\ jobs = {}
    /\ pass = Idle
    /\ hmvc_tasks = 0
    /\ hmvc_loops = {}
    /\ timeouts = {}
    /\ handler = Idle
    /\ clicks = 0
    /\ applied = {}
    /\ last = NoClick
    /\ job_ids = {}
    /\ resets = 0
    /\ commits = << >>
    /\ vote_log = << >>
    /\ held = IF registry = "memory" THEN FirstObject ELSE None
    /\ getters = NoCalls
    /\ rows = pending
    /\ tasks = NoTasks
    /\ games = << >>
    /\ rearmed = {}

\* the start of the process: GameManager.__init__ loads every session and
\* every pending action into memory (_load_all_from_db), then
\* cleanup_expired_pending_actions deletes the expired rows of the table (the
\* entries in memory stay); _post_init calls resync_all_from_db, which runs
\* the re-arm pass; tasks and job queue of the old process are gone
restart ==
    /\ registry' = "memory"
    /\ phase' = Loaded.phase
    /\ roles_config' = Loaded.roles_config
    /\ night_seconds' = Loaded.night_seconds
    /\ phase_deadline' = Loaded.phase_deadline
    /\ players' = Loaded.players
    /\ pending' = LoadPending(PendingRows(pending))
    /\ night_actions' = EmptyLedger
    /\ mafia_votes' = << >>
    /\ vote_log' = << >>
    /\ jobs' = reschedule_jobs_on_startup(Loaded.phase, Loaded.phase_deadline)
    /\ job_ids' = rescheduled_ids(Loaded.phase, Loaded.phase_deadline)
    /\ pass' = Idle
    /\ handler' = Idle
    /\ hmvc_tasks' = 0
    /\ hmvc_loops' = {}
    /\ timeouts' = {}
    /\ last' = Restarted
    /\ held' = FirstObject
    /\ rows' = [k \in {x \in DOMAIN rows : ~Expired(rows[x])} |-> rows[k]]
    /\ UNCHANGED <<next_key, now, clicks, applied, resets, commits, getters,
                   tasks, games, rearmed>>

NextRestart ==
    \/ restart
    \/ Tick

SpecRestart == InitRestart /\ [][NextRestart]_vars

\* time does not stop and the process is started
SpecSweep == SpecRestart /\ WF_vars(Tick) /\ WF_vars(restart)

\* --------------------------------------------------------- reset to lobby
\* a configuration whose mafia member silences instead of killing
SilencerConfig == << <<"chantajeador", 1>>, <<"ciudadano", 3>> >>

\* `last` after the reset
ResetDone == [NoClick EXCEPT !.op = "reset_lobby"]

reset_keeping_flags ==
    /\ resets < MaxResets
    /\ clicks + resets < MaxClicks
    /\ resets' = resets + 1
    /\ phase' = "lobby"
    /\ roles_config' = DefaultConfig
    /\ night_actions' = EmptyLedger
    /\ mafia_votes' = << >>
    /\ vote_log' = << >>
    /\ pending' = << >>
    /\ phase_deadline' = None
    /\ job_ids' = {}
    /\ players' = [u \in DOMAIN players |->
                      [players[u] EXCEPT !.role_key = NoRole, !.alive = TRUE]]
    /\ last' = ResetDone
    /\ UNCHANGED <<night_seconds, next_key, now, jobs, pass, hmvc_tasks, hmvc_loops,
                   timeouts, handler, clicks, applied, commits, registry,
                   held, getters, tasks, games, rearmed>>
    /\ rows' = pending'

\* dash_reset_lobby, run by the dashboard thread at any moment: the session
\* fields are reset and persisted; g.job_ids.clear() forgets the job handles,
\* the job queue is not touched
dash_reset_lobby ==
    /\ resets < MaxResets
    /\ clicks + resets < MaxClicks
    /\ resets' = resets + 1
    /\ phase' = "lobby"
    /\ roles_config' = DefaultConfig
    /\ night_actions' = EmptyLedger
    /\ mafia_votes' = << >>
    /\ vote_log' = << >>
    /\ pending' = << >>
    /\ phase_deadline' = None
    /\ job_ids' = {}
    /\ players' = [u \in DOMAIN players |-> PlayerState]
    /\ last' = ResetDone
    /\ UNCHANGED <<night_seconds, next_key, now, jobs, pass, hmvc_tasks, hmvc_loops,
                   timeouts, handler, clicks, applied, commits, registry,
                   held, getters, tasks, games, rearmed>>
    /\ rows' = pending'

NextAdmin ==
    \/ Next
    \/ dash_reset_lobby

InitAdmin == InitWith({DefaultConfig, SilencerConfig}, {NIGHT_DEFAULT})

SpecAdmin == InitAdmin /\ [][NextAdmin]_vars

\* ------------------------------------------------------ the mafia's voting
\* a configuration with three mafia members
TrioConfig == << <<"mafia", 3>>, <<"ciudadano", 1>> >>

\* a night of a session of four players with three mafia members, two of
\* whom have voted; clicks counts the button presses from this state on
InitVote ==
    /\ phase = "night"
    /\ roles_config = TrioConfig
    /\ night_seconds = NIGHT_DEFAULT
    /\ phase_deadline = NIGHT_DEFAULT
    /\ players \in assign_roles([u \in 1..MIN_PLAYERS |-> PlayerState], TrioConfig)
    /\ night_actions = EmptyLedger
    /\ pending = prompt_night(<< >>, 0, players, 0)
    /\ next_key = Cardinality(PromptButtons(players))
    /\ \E a, b \in MafiaIds(players) : \E x, y \in DOMAIN players :
          /\ a # b /\ x # a /\ y # b
          /\ mafia_votes = << <<a, x>>, <<b, y>> >>
    /\ vote_log = mafia_votes
    /\ registry = "memory"
    /\ applied = {<<k, pending[k].actor>> : k \in
                    {j \in DOMAIN pending :
                        <<pending[j].actor, pending[j].target>> \in Range(mafia_votes)}}
    /\ now = 0
    /\ jobs = {[name |-> "job_end_night", due |-> NIGHT_DEFAULT]}
    /\ job_ids = {"night_end", "reminder"}
    /\ pass = Idle
    /\ hmvc_tasks = 0
    /\ hmvc_loops = {}
    /\ timeouts = {}
    /\ handler = Idle
    /\ clicks = 0
    /\ last = NoClick
    /\ resets = 0
    /\ commits = << >>
    /\ held = IF registry = "memory" THEN FirstObject ELSE None
    /\ getters = NoCalls
    /\ rows = pending
    /\ tasks = NoTasks
    /\ games = << >>
    /\ rearmed = {}

NextVote ==
    \/ \E k \in 1..next_key : \E u \in Clickers(k) : cb_handler(k, u, ButtonTarget(k))
    \/ cb_handler_confirm
    \/ handle_mafia_votes_and_confirm
    \/ \E l \in hmvc_loops : handle_mafia_votes_notify(l)

SpecVote == InitVote /\ [][NextVote]_vars

\* ------------------------------------------------------------------ claims
NightLedgerKinds == {"heal", "block", "guard", "vigilante_shot", "serial_kill",
                     "investigate", "blackmail"}

NightTags == {"mafia_pick", "heal", "block", "guard", "kill", "serial_kill",
              "investigate", "blackmail"}

\* a step of cb_handler, and the key and the user of that response
Responded == clicks' # clicks
RKey == last'.key
RUser == last'.user

\* C1: once the phase is inactive it stays inactive and no end-of-phase
\* callback is armed any more
C1_InactiveIsFinal ==
    [][phase = "inactive" => (phase' = "inactive" /\ jobs' \subseteq jobs)]_vars

\* C2: a response with a key that the same user already had recorded adds no
\* entry to the ledger, to the mafia votes or to a confirmation list
C2_AppliedOnce ==
    [][(Responded /\ <<RKey, RUser>> \in applied) =>
          /\ \A kind \in LedgerKinds :
                Len(night_actions'[kind]) <= Len(night_actions[kind])
          /\ VoteKeys(mafia_votes') \subseteq VoteKeys(mafia_votes)
          /\ \A k \in DOMAIN pending \cap DOMAIN pending' :
                Len(pending'[k].confirmations) <= Len(pending[k].confirmations)]_vars

\* C3: at most one pending action of kind mafia_confirm is not expired
C3_OneConfirm ==
    Cardinality({k \in DOMAIN pending : /\ pending[k].action = "mafia_confirm"
                                        /\ ~Expired(pending[k])}) <= 1

\* C4: while a resolution pass is between its start and its end, no response
\* changes the ledger, the mafia votes or the players
C4_NoInterleave ==
    [][(pass.pc # "idle" /\ Responded) =>
          UNCHANGED <<night_actions, mafia_votes, players>>]_vars

\* C5: cmd_empezar in the lobby with fewer than 4 players leaves the lobby and
\* every role unassigned; with 4 or more it enters the night and every player
\* has a role
C5_Start ==
    [][(cmd_empezar /\ phase = "lobby") =>
          IF Cardinality(DOMAIN players) < MIN_PLAYERS
          THEN /\ phase' = "lobby"
               /\ \A u \in DOMAIN players' : players'[u].role_key = NoRole
          ELSE /\ phase' = "night"
               /\ DOMAIN players' = DOMAIN players
               /\ \A u \in DOMAIN players' : players'[u].role_key \in RoleKeys]_vars

\* C5 witness: a game of five just started on a pool of three configured roles
C5_Started ==
    /\ phase = "night" /\ now = 0 /\ clicks = 0
    /\ roles_config = KillerConfig
    /\ Cardinality(DOMAIN players) = 5
    /\ \A u \in DOMAIN players : players[u].role_key \in RoleKeys
    /\ Cardinality({u \in DOMAIN players : players[u].role_key = "ciudadano"}) = 2

\* C6: outside the lobby no step changes the set of players
C6_JoinOnlyInLobby ==
    [][phase # "lobby" => DOMAIN players' = DOMAIN players]_vars

\* the ledger entry resolve_night reads for a night prompt
ReadBy(tag) == IF tag = "kill" THEN "vigilante_shot" ELSE tag

\* C7: an accepted response to a night prompt leaves the actor's choice in the
\* ledger entry resolve_night reads for that prompt
C7_ChoiceRecorded ==
    [][(Responded /\ last'.res \in {"recorded", "processed"}
                  /\ last'.action \in NightTags) =>
          IF last'.action = "mafia_pick"
          THEN <<RUser, pending[RKey].target>> \in Range(mafia_votes')
          ELSE <<RUser, pending[RKey].target>>
                   \in Range(night_actions'[ReadBy(last'.action)])]_vars

\* C8: the vote ledger holds at most one pair per voter, and after a vote it is
\* the pair of that response
C8_OneVotePerVoter ==
    /\ \A i, j \in DOMAIN night_actions["vote"] :
          night_actions["vote"][i][1] = night_actions["vote"][j][1] => i = j
    /\ (last.op = "cb_handler" /\ last.action = "vote_group" /\ last.res = "recorded")
          => <<last.user, pending[last.key].target>> \in Range(night_actions["vote"])

\* C8 witness: a voter whose pair was in the ledger voted again, for another
\* target than the earlier one
C8_VotedAgain ==
    /\ last.op = "cb_handler" /\ last.action = "vote_group"
    /\ last.res = "recorded" /\ last.repeat
    /\ \E k \in DOMAIN pending : /\ <<k, last.user>> \in applied
                                 /\ pending[k].action = "vote_group"
                                 /\ pending[k].target # pending[last.key].target

\* C9: in the ledger each actor has at most one entry per night-action kind
C9_OneEntryPerActor ==
    \A kind \in NightLedgerKinds :
       \A i, j \in DOMAIN night_actions[kind] :
          night_actions[kind][i][1] = night_actions[kind][j][1] => i = j

\* C10 as stated: a response by another user than the addressee of the pending
\* action leaves ledger, mafia votes, players and pending actions unchanged
C10_WrongActorNoChange ==
    [][(Responded /\ RKey \in DOMAIN pending
                  /\ pending[RKey].actor # None /\ pending[RKey].actor # RUser) =>
          /\ last'.res \in {"unauthorized", "expired"}
          /\ UNCHANGED <<night_actions, mafia_votes, players, pending>>]_vars

\* C10: a response by another user than the addressee of a pending action that
\* has not expired is rejected as unauthorized and leaves ledger, mafia votes,
\* players and pending actions unchanged
C10_WrongActorRejected ==
    [][(Responded /\ RKey \in DOMAIN pending
                  /\ pending[RKey].actor # None /\ pending[RKey].actor # RUser
                  /\ ~Expired(pending[RKey])) =>
          /\ last'.res = "unauthorized"
          /\ UNCHANGED <<night_actions, mafia_votes, players, pending>>]_vars

\* C10 witness: a response was rejected as unauthorized
C10_Rejected ==
    /\ last.op = "cb_handler" /\ last.res = "unauthorized"
    /\ last.key \in DOMAIN pending
    /\ pending[last.key].actor \notin {None, last.user}
\* C11: a response to a pending action whose expires_at has passed is
\* rejected as expired, deletes that pending action and leaves ledger, mafia
\* votes and players unchanged; a response to a key that is no longer pending
\* changes nothing at all
C11_ExpiredRejected ==
    [][Responded =>
          /\ (RKey \in DOMAIN pending /\ pending[RKey].expires_at # None
                                      /\ now > pending[RKey].expires_at) =>
                /\ last'.res = "expired"
                /\ pending' = [x \in DOMAIN pending \ {RKey} |-> pending[x]]
                /\ UNCHANGED <<night_actions, mafia_votes, players>>
          /\ RKey \notin DOMAIN pending =>
                /\ last'.res = "invalid"
                /\ UNCHANGED <<night_actions, mafia_votes, players, pending>>]_vars

\* C11 witness: a response was rejected as expired and its key is gone
C11_Lapsed ==
    /\ last.op = "cb_handler" /\ last.res = "expired"
    /\ last.key \notin DOMAIN pending

VotesFor(t) == Cardinality({i \in DOMAIN mafia_votes : mafia_votes[i][2] = t})

\* C13: when the confirmation window times out on a proposal that not every
\* living mafia member confirmed and mafia_votes is not empty, the plurality
\* target of mafia_votes (the first registered one among equals) is appended
\* to the ledger entry mafia_confirmed and the proposal is deleted
C13_Fallback ==
    [][\A tk \in timeouts :
          (/\ mafia_confirm_timeout(tk)
           /\ tk.key \in DOMAIN pending
           /\ ~(MafiaIds(players) \subseteq Range(pending[tk.key].confirmations))
           /\ mafia_votes # << >>) =>
             /\ tk.key \notin DOMAIN pending'
             /\ \E i \in DOMAIN mafia_votes :
                   /\ night_actions'["mafia_confirmed"] =
                         Append(night_actions["mafia_confirmed"],
                                <<0, mafia_votes[i][2]>>)
                   /\ \A j \in DOMAIN mafia_votes :
                         /\ VotesFor(mafia_votes[j][2]) <= VotesFor(mafia_votes[i][2])
                         /\ VotesFor(mafia_votes[j][2]) = VotesFor(mafia_votes[i][2])
                               => i <= j]_vars

\* C13 witness: the fallback committed a target while two mafia members had
\* voted for different targets
C13_FellBack ==
    /\ last.op = "fallback"
    /\ Len(mafia_votes) = 2
    /\ mafia_votes[1][2] # mafia_votes[2][2]
    /\ night_actions["mafia_confirmed"] # << >>

\* the number of day votes for target t
DayVotesFor(t) ==
    Cardinality({i \in DOMAIN night_actions["vote"] : night_actions["vote"][i][2] = t})

\* target t has strictly more day votes than every other target
StrictTop(t) ==
    /\ DayVotesFor(t) > 0
    /\ \A o \in Users \ {t} : DayVotesFor(o) < DayVotesFor(t)

\* C14: resolve_votes_job makes the target with strictly the most votes not
\* alive and changes no other alive flag; with a tie or without votes no
\* alive flag changes, and the rest of the pass changes no player
C14_Lynch ==
    [][/\ \A j \in jobs : resolve_votes_job(j) =>
             /\ \A t \in DOMAIN players : StrictTop(t) =>
                   players' = [players EXCEPT ![t].alive = FALSE]
             /\ (~ \E t \in DOMAIN players : StrictTop(t)) => players' = players
       /\ (resolve_votes_check \/ resolve_votes_winner \/ resolve_votes_night)
             => players' = players]_vars

\* C14 witness: the tally just lynched the target with strictly the most
\* votes, cast by two voters
C14_Lynched ==
    /\ pass.pc = "rv_tallied"
    /\ \E t \in DOMAIN players : StrictTop(t) /\ ~players[t].alive
    /\ Len(night_actions["vote"]) >= 2

\* C15: when resolve_votes_job completes, the phase is inactive if
\* check_win_conditions_sync finds a winner among the resulting players, and
\* night otherwise
C15_PhaseAfterVotes ==
    [][(resolve_votes_winner \/ resolve_votes_night) =>
          phase' = IF check_win_conditions_sync(players') # ""
                   THEN "inactive" ELSE "night"]_vars

\* living players of the mafia faction, of the town faction, and living
\* neutral killers
LivingOf(f) ==
    Cardinality({u \in DOMAIN players :
                    /\ players[u].alive
                    /\ players[u].role_key \in RoleKeys
                    /\ Faction(players[u].role_key) = f})

\* the number of living players
Living == Cardinality({u \in DOMAIN players : players[u].alive})

\* C16: check_win_conditions_sync returns town if no mafia player and no
\* neutral killer is alive; else mafia if a mafia player is alive and the
\* living mafia are at least as many as the living town; else serial if the
\* neutral killer is alive and is the only living player; else no winner.
\* Town is never returned while the neutral killer is alive
C16_Winner ==
    last.op = "check_win" =>
       /\ last.res =
             IF LivingOf("mafia") = 0 /\ LivingOf("neutral") = 0 THEN "town"
             ELSE IF LivingOf("mafia") >= 1 /\ LivingOf("mafia") >= LivingOf("town")
                  THEN "mafia"
             ELSE IF LivingOf("neutral") >= 1 /\ Living = 1 THEN "serial"
             ELSE ""
       /\ LivingOf("neutral") >= 1 => last.res # "town"

\* C16 witness: the check named the neutral killer the winner
C16_SerialWins ==
    /\ last.op = "check_win" /\ last.res = "serial"
    /\ Len(players) = MaxWinPlayers

\* the number of players holding role rk after the step
HoldersAfter(rk) ==
    Cardinality({u \in DOMAIN players' : players'[u].role_key = rk})

\* C17: after assign_roles every player holds a role, and every configured
\* role whose count is at most the number of players is held by at least
\* that many players
C17_ConfiguredRolesHeld ==
    [][(cmd_empezar /\ phase = "lobby" /\ phase' = "night") =>
          /\ \A u \in DOMAIN players' : players'[u].role_key \in RoleKeys
          /\ \A i \in DOMAIN roles_config :
                roles_config[i][2] <= Len(players) =>
                   HoldersAfter(roles_config[i][1]) >= roles_config[i][2]]_vars

C19_ResetToLobby ==
    [][resets' # resets =>
          /\ phase' = "lobby"
          /\ \A k \in LedgerKinds : night_actions'[k] = << >>
          /\ mafia_votes' = << >>
          /\ DOMAIN pending' = {}
          /\ job_ids' = {}
          /\ phase_deadline' = None
          /\ \A u \in DOMAIN players' :
                ~players'[u].blocked /\ ~players'[u].silenced
          /\ DOMAIN players' = DOMAIN players]_vars

\* C19 witness: a session was reset after a night in which a response had
\* been recorded was resolved, with the day's callback still armed
C19_WasReset ==
    /\ last.op = "reset_lobby"
    /\ applied # {}
    /\ \E j \in jobs : j.name = "job_end_day"
    /\ Len(players) >= MIN_PLAYERS

\* C20: at most one end-of-phase callback is armed, and none while the
\* session is in the lobby
C20_OneCallback ==
    /\ Cardinality(jobs) <= 1
    /\ phase = "lobby" => jobs = {}

\* C22: a session whose phase is night, day or voting has a phase deadline
C22_DeadlineSet ==
    phase \in {"night", "day", "voting"} => phase_deadline # None

\* the players a living blocker has blocked in the night being resolved, and
\* the players still marked blocked
BlockedNow ==
    {night_actions["block"][i][2] : i \in
        {j \in DOMAIN night_actions["block"] :
            /\ night_actions["block"][j][1] \in DOMAIN players
            /\ players[night_actions["block"][j][1]].alive}}
    \cup {u \in DOMAIN players : players[u].blocked}

\* target t has a heal from a living actor that is not blocked
Healed(t) ==
    \E i \in DOMAIN night_actions["heal"] :
       /\ night_actions["heal"][i][2] = t
       /\ night_actions["heal"][i][1] \in DOMAIN players
       /\ players[night_actions["heal"][i][1]].alive
       /\ night_actions["heal"][i][1] \notin BlockedNow

\* C24: when resolve_night is applied, a living target with a heal from a
\* living, unblocked actor stays alive, and when every attack of the night
\* has such a target nobody dies
C24_HealSaves ==
    [][\A j \in jobs : job_end_night(j) =>
          /\ \A t \in DOMAIN players :
                (Healed(t) /\ players[t].alive) => players'[t].alive
          /\ (\A t \in Range(Attacks(ApplyBlocks(players, night_actions),
                                     night_actions, mafia_votes)) : Healed(t))
                => Alive(players') = Alive(players)]_vars

\* C24 witness: the night was resolved, the mafia's target had been healed
\* and everybody is alive
C24_Survived ==
    /\ pass.pc = "rn_summary"
    /\ mafia_votes # << >>
    /\ Healed(most_common(VoteValues(mafia_votes)))
    /\ Alive(players) = DOMAIN players

\* C25: when the voting that follows a day is resolved and the next night
\* starts, no player is silenced any more
C25_SilenceLifted ==
    [][(phase = "voting" /\ phase' = "night") =>
          \A u \in DOMAIN players' : ~players'[u].silenced]_vars

\* the targets committed in the ledger entry mafia_confirmed
Committed ==
    {night_actions["mafia_confirmed"][i][2] :
        i \in DOMAIN night_actions["mafia_confirmed"]}

\* the mafia attack resolve_night enqueues: the attacks without the
\* vigilante's and the serial killer's
MafiaAttack ==
    Attacks(ApplyBlocks(players, night_actions),
            [night_actions EXCEPT !["vigilante_shot"] = << >>,
                                  !["serial_kill"] = << >>],
            mafia_votes)

\* C27: when resolve_night is applied and the ledger holds a committed mafia
\* target, the mafia attack is aimed at a committed target
C27_CommittedTarget ==
    [][\A j \in jobs : (job_end_night(j) /\ Committed # {}) =>
          \A i \in DOMAIN MafiaAttack : MafiaAttack[i] \in Committed]_vars

\* C29: a confirmation that has been appended to a pending action stays in
\* its confirmation set for as long as the pending action exists
C29_ConfirmationKept ==
    [][\A k \in DOMAIN pending : \A u \in Range(pending[k].confirmations) :
          k \in DOMAIN pending' => u \in Range(pending'[k].confirmations)]_vars

\* C28: no proposal is committed to mafia_confirmed more than once, whether
\* by the full confirmation, by the timeout fallback or by both
C28_CommittedOnce ==
    \A i, j \in DOMAIN commits : commits[i].key = commits[j].key => i = j

\* the number of current mafia votes for target t
MafiaVotesFor(t) ==
    Cardinality({i \in DOMAIN mafia_votes : mafia_votes[i][2] = t})

\* the targets no other target has more mafia votes than
MafiaTopTargets ==
    {t \in Range(VoteValues(mafia_votes)) :
        \A t2 \in Range(VoteValues(mafia_votes)) : MafiaVotesFor(t2) <= MafiaVotesFor(t)}

\* the moment the earliest of the current votes for target t was registered:
\* a voter's current vote is the voter's last entry of the log
RegisteredAt(t) ==
    LET current == {i \in DOMAIN vote_log :
                       /\ vote_log[i][2] = t
                       /\ \A j \in DOMAIN vote_log :
                             vote_log[j][1] = vote_log[i][1] => j <= i}
    IN CHOOSE i \in current : \A j \in current : i <= j

\* the step of handle_mafia_votes_and_confirm that creates the first proposal
\* of the night
FirstProposal ==
    /\ handle_mafia_votes_and_confirm
    /\ next_key' # next_key
    /\ next_key = Cardinality(PromptButtons(players))

\* C30: the first proposal of a night carries a target with the highest vote
\* count, among tied targets the one whose vote was registered first in time,
\* and an empty confirmation set
C30_FirstRegisteredWins ==
    [][FirstProposal =>
          /\ pending'[next_key'].confirmations = << >>
          /\ pending'[next_key'].target \in MafiaTopTargets
          /\ \A t \in MafiaTopTargets \ {pending'[next_key'].target} :
                RegisteredAt(pending'[next_key'].target) < RegisteredAt(t)]_vars

\* C23: create_game for a session that is in memory or in the store fails,
\* the session's stored rows are what they were, a session that was in memory
\* keeps its phase, players and settings, and afterwards the session is in the
\* registry, so that get_game returns it
C23_ExistingKept ==
    [][(last'.op = "create_game" /\ registry \in {"memory", "store"}) =>
          /\ last'.res \in {"exists in memory", "exists in DB"}
          /\ registry' = "memory"
          /\ GamesRow(phase', roles_config', night_seconds', phase_deadline')
                = GamesRow(phase, roles_config, night_seconds, phase_deadline)
          /\ PlayerRows(players') = PlayerRows(players)
          /\ PendingRows(pending') = PendingRows(pending)
          /\ registry = "memory" =>
                /\ phase' = phase /\ players' = players
                /\ roles_config' = roles_config
                /\ night_seconds' = night_seconds
                /\ phase_deadline' = phase_deadline]_vars

\* C23 witness: create_game has failed for a started session with players
\* that was in the store only, and the session is in memory now
C23_Rehydrated ==
    /\ last = CreateResult("exists in DB")
    /\ registry = "memory"
    /\ phase = "night"
    /\ players # << >>

\* the end-of-phase callback of a phase
EndOfPhaseJob(ph) ==
    IF ph = "night" THEN "job_end_night"
    ELSE IF ph = "day" THEN "job_end_day"
    ELSE "job_resolve_votes"

\* C21: after a restart a session in phase night, day or voting with a phase
\* deadline has its end-of-phase callback armed
C21_Rearmed ==
    [][(last'.op = "restart" /\ phase' \in {"night", "day", "voting"}
        /\ phase_deadline' # None) =>
          \E j \in jobs' : j.name = EndOfPhaseJob(phase')]_vars

\* C26: a pending action that has expired is eventually gone from the
\* session's pending actions
C26_Swept ==
    \A k \in 1..MaxKeys :
        (k \in DOMAIN pending /\ Expired(pending[k])) ~> (k \notin DOMAIN pending)

\* ------------------------------------------- resolve_night on drawn ledgers
\* the longest list of one ledger kind that is drawn
MaxEntries == 2

\* the roles of players 1..4 in the nights that are resolved
NightCasts ==
    { <<"mafia", "escort", "doctor", "vigilante">>,
      <<"mafia", "escort", "detective", "chantajeador">>,
      <<"mafia", "escort", "guardaespaldas", "vigilante">>,
      <<"mafia", "guardaespaldas", "vigilante", "vigilante">> }

\* the entries cb_handler can append to one ledger kind: the actor holds the
\* role whose prompt carries the tag, the target is another player
EntriesOf(ps, kind) ==
    {<<a, t>> \in (DOMAIN ps) \X (DOMAIN ps) :
        /\ a # t
        /\ LedgerKey(action_tag(ps[a].role_key), ps[a].role_key) = kind}

SeqsUpTo(S, n) == UNION {[1..m -> S] : m \in 0..n}

\* the night is over: every list of the ledger and the mafia's votes are drawn
InitNight ==
    /\ phase = "night"
    /\ roles_config = DefaultConfig
    /\ night_seconds = NIGHT_DEFAULT
    /\ phase_deadline = NIGHT_DEFAULT
    /\ \E cast \in NightCasts :
          players = [u \in 1..Len(cast) |-> [PlayerState EXCEPT !.role_key = cast[u]]]
    /\ \E b \in SeqsUpTo(EntriesOf(players, "block"), MaxEntries),
          h \in SeqsUpTo(EntriesOf(players, "heal"), MaxEntries),
          gd \in SeqsUpTo(EntriesOf(players, "guard"), MaxEntries),
          s \in SeqsUpTo(EntriesOf(players, "vigilante_shot"), MaxEntries),
          bm \in SeqsUpTo(EntriesOf(players, "blackmail"), MaxEntries),
          i \in SeqsUpTo(EntriesOf(players, "investigate"), MaxEntries) :
          night_actions = [EmptyLedger EXCEPT !["block"] = b, !["heal"] = h,
                                              !["guard"] = gd,
                                              !["vigilante_shot"] = s,
                                              !["blackmail"] = bm,
                                              !["investigate"] = i]
    /\ mafia_votes \in SeqsUpTo({<<a, t>> \in MafiaIds(players) \X (DOMAIN players) :
                                    a # t}, 1)
    /\ vote_log = mafia_votes
    /\ pending = prompt_night(<< >>, 0, players, 0)
    /\ next_key = Cardinality(PromptButtons(players))
    /\ applied = {<<k, pending[k].actor>> : k \in
                    {j \in DOMAIN pending :
                        \/ <<pending[j].actor, pending[j].target>> \in Range(mafia_votes)
                        \/ \E kind \in LedgerKinds :
                              <<pending[j].actor, pending[j].target>>
                                  \in Range(night_actions[kind])}}
    /\ now = NIGHT_DEFAULT
    /\ jobs = {[name |-> "job_end_night", due |-> NIGHT_DEFAULT]}
    /\ job_ids = {"night_end", "reminder"}
    /\ pass = Idle
    /\ hmvc_tasks = 0
    /\ hmvc_loops = {}
    /\ timeouts = {}
    /\ handler = Idle
    /\ clicks = 0
    /\ last = NoClick
    /\ resets = 0
    /\ commits = << >>
    /\ registry = "memory"
    /\ held = IF registry = "memory" THEN FirstObject ELSE None
    /\ getters = NoCalls
    /\ rows = pending
    /\ tasks = NoTasks
    /\ games = << >>
    /\ rearmed = {}

NextNight ==
    \/ \E j \in jobs : job_end_night(j)
    \/ resolve_night_cleanup
    \/ resolve_night_winner
    \/ job_end_night_day
    \/ job_end_night_arm

SpecNight == InitNight /\ [][NextNight]_vars

\* C31: when resolve_night is applied, for every attacked living target that
\* has a living, unblocked guard and no heal, the guard is dead and the target
\* alive afterwards, however many attacks the target gets (the guard is not
\* a target of the night's attacks)
C31_GuardTakesEveryHit ==
    [][\A j \in jobs : job_end_night(j) =>
          LET \* g guards t: a guard entry of a living actor that is not blocked
              Guards(g, t) ==
                  \E i \in DOMAIN night_actions["guard"] :
                     /\ night_actions["guard"][i] = <<g, t>>
                     /\ g \in DOMAIN players
                     /\ players[g].alive
                     /\ g \notin BlockedNow
              \* the targets attacked in the night that is being resolved
              Attacked ==
                  Range(Attacks(ApplyBlocks(players, night_actions),
                                night_actions, mafia_votes))
          IN \A g, t \in DOMAIN players :
                (/\ Guards(g, t) /\ players[t].alive /\ t \in Attacked
                 /\ ~Healed(t) /\ g \notin Attacked)
                   => (~players'[g].alive /\ players'[t].alive)]_vars

\* the investigations of resolve_night, on the players the attacks left: the
\* results sent, as <<investigator, target, result>>
investigations(ps, na) ==
    LET \* Role.detective_signature ("" = None)
        detective_signature(rk) ==
            IF rk \in {"mafia", "vigilante"} THEN "ARMA"
            ELSE IF rk \in {"doctor", "asesino"} THEN "CUCHILLO"
            ELSE IF rk \in {"escort", "consorte"} THEN "BLOQUEADOR"
            ELSE IF rk = "chantajeador" THEN "SUSPECTO"
            ELSE ""
        \* the result sent to investigator a about target t
        investigate_result(a, t) ==
            IF t \notin DOMAIN ps \/ ~ps[t].alive THEN "No valido"
            ELSE IF ps[a].role_key = "sheriff"
                 THEN (IF Faction(ps[t].role_key) = "mafia"
                          \/ ps[t].role_key = "asesino"
                       THEN "CULPABLE" ELSE "INOCENTE")
            ELSE IF ps[t].role_key = NoRole \/ ps[t].role_key = "padrino"
                 THEN "INOCENTE"
            ELSE IF detective_signature(ps[t].role_key) # ""
                 THEN detective_signature(ps[t].role_key)
            ELSE "INOCENTE"
    IN {<<e[1], e[2], investigate_result(e[1], e[2])>> :
           e \in {x \in Range(na["investigate"]) : Acting(ps, x[1])}}

\* the ledger without the entries of the given actors in the kinds that need
\* an actor who is not blocked
OwnKinds == {"heal", "guard", "vigilante_shot", "serial_kill", "blackmail",
             "investigate"}

Without(na, actors) ==
    [k \in LedgerKinds |->
        IF k \in OwnKinds THEN SelectSeq(na[k], LAMBDA e : e[1] \notin actors)
        ELSE na[k]]

\* the targets of the block entries of living blockers
BlockTargets ==
    {night_actions["block"][i][2] : i \in
        {j \in DOMAIN night_actions["block"] :
            /\ night_actions["block"][j][1] \in DOMAIN players
            /\ players[night_actions["block"][j][1]].alive}}

\* C32: when resolve_night is applied, the outcome (who is alive, blocked,
\* silenced, and which investigation results are sent) is the one of the
\* ledger without the heal, guard, attack, blackmail and investigation
\* entries of the players a living blocker has blocked
C32_BlockedDoNothing ==
    [][\A j \in jobs : job_end_night(j) =>
          /\ players' = resolve_night(players,
                                      Without(night_actions, BlockTargets),
                                      mafia_votes)
          /\ investigations(players', night_actions)
                = investigations(players', Without(night_actions, BlockTargets))
          /\ \A e \in investigations(players', night_actions) :
                e[1] \notin BlockTargets]_vars

\* C32 witness: the night was resolved with a blocked player who had an entry
\* of their own in the ledger, and that entry's target is untouched
C32_BlockedEntryDropped ==
    /\ pass.pc = "rn_summary"
    /\ \E b \in BlockTargets : \E k \in {"vigilante_shot", "blackmail"} :
          \E i \in DOMAIN night_actions[k] :
             /\ night_actions[k][i][1] = b
             /\ players[night_actions[k][i][2]].alive
             /\ ~players[night_actions[k][i][2]].silenced

\* C33: when resolve_night is applied to a ledger in which every actor has
\* one entry per kind, every other order of the entries of any one kind
\* gives the same dead players and the same silenced players
C33_OrderIrrelevant ==
    [][LET \* the orders in which the entries of a list can stand
           Orders(list) ==
               {[i \in DOMAIN list |-> list[p[i]]] :
                   p \in {q \in [DOMAIN list -> DOMAIN list] :
                             \A a, b \in DOMAIN list : q[a] = q[b] => a = b}}
           Silenced(ps) == {u \in DOMAIN ps : ps[u].silenced}
           \* no actor has two entries in one list of the ledger
           OneEntryEach(na) ==
               \A k \in OwnKinds \cup {"block"} : \A a, b \in DOMAIN na[k] :
                   na[k][a][1] = na[k][b][1] => a = b
       IN \A j \in jobs : (job_end_night(j) /\ OneEntryEach(night_actions)) =>
             \A k \in OwnKinds \cup {"block"} :
                \A list \in Orders(night_actions[k]) :
                   LET other == resolve_night(players,
                                              [night_actions EXCEPT ![k] = list],
                                              mafia_votes)
                   IN /\ Alive(other) = Alive(players')
                      /\ Silenced(other) = Silenced(players')]_vars

\* C34: when resolve_night returns (after the winner's announcement, or right
\* after the cleanup when nobody has won), with or without a winner, the ledger is
\* empty, the mafia's votes are empty and no player is flagged blocked
C34_CleanAtReturn ==
    [][(\/ pass.pc = "rn_winner" /\ pass'.pc = "en_back"
        \/ pass.pc = "rn_summary" /\ pass'.pc = "en_day") =>
          /\ night_actions' = EmptyLedger
          /\ mafia_votes' = << >>
          /\ \A u \in DOMAIN players' : ~players'[u].blocked]_vars

\* C36: when a night begins, the ledger lists resolve_night applies and the
\* mafia's votes hold nothing: whatever the resolution of that night applies
\* was recorded during that night, and a response given during the day or the
\* vote to a prompt of the night before is not applied by it
C36_NightStartsClean ==
    [][(phase # "night" /\ phase' = "night") =>
          /\ \A k \in OwnKinds \cup {"block"} : night_actions'[k] = << >>
          /\ mafia_votes' = << >>]_vars

\* C39: when resolve_votes_job tallies, every <<voter, target>> pair of the
\* vote list comes from a player of the session who is alive
C39_VotersAlive ==
    [][\A j \in jobs : resolve_votes_job(j) =>
          \A i \in DOMAIN night_actions["vote"] :
             night_actions["vote"][i][1] \in Alive(players)]_vars

\* ------------------------------------ main.reschedule_jobs_on_startup
\* the variables of the one session that is modelled in full
session_vars ==
    <<phase, roles_config, night_seconds, phase_deadline, players,
      night_actions, mafia_votes, pending, next_key, jobs, pass, hmvc_tasks,
      hmvc_loops, timeouts, handler, clicks, applied, job_ids, resets,
      commits, vote_log, registry, held, getters, rows, tasks>>

MaxSessions == 2   \* sessions in GAME._games when the pass runs
MaxSkew == 1       \* how far a persisted deadline lies before or after now

\* the sessions the pass can find: any phase, no deadline or one around now
InitRearm ==
    /\ registry = "memory"
    /\ phase = "lobby"
    /\ roles_config = DefaultConfig
    /\ night_seconds = NIGHT_DEFAULT
    /\ phase_deadline = None
    /\ players = << >>
    /\ night_actions = EmptyLedger
    /\ mafia_votes = << >>
    /\ pending = << >>
    /\ next_key = 0
    /\ now = NIGHT_DEFAULT
    /\ jobs = {}
    /\ pass = Idle
    /\ hmvc_tasks = 0
    /\ hmvc_loops = {}
    /\ timeouts = {}
    /\ handler = Idle
    /\ clicks = 0
    /\ applied = {}
    /\ last = NoClick
    /\ job_ids = {}
    /\ resets = 0
    /\ commits = << >>
    /\ vote_log = << >>
    /\ held = FirstObject
    /\ getters = NoCalls
    /\ rows = << >>
    /\ tasks = NoTasks
    /\ games \in
          {[i \in 1..MaxSessions |-> [chat_id |-> i, phase |-> f[i][1],
                                      phase_deadline |-> f[i][2]]] :
              f \in [1..MaxSessions ->
                       {"lobby", "night", "day", "voting"}
                          \X ({None} \cup
                                {NIGHT_DEFAULT + d : d \in (0 - MaxSkew)..MaxSkew})]}
    /\ rearmed = {}

\* main.reschedule_jobs_on_startup: for every session in night or day with a
\* deadline one callback is armed, "lambda c: ...(c, g.chat_id)"; the lambda
\* reads the loop variable g when it is called, and by then g is the last
\* session the loop went over
rearm_pass ==
    /\ last = NoClick
    /\ last' = [NoClick EXCEPT !.op = "rearm"]
    /\ games # << >>
    /\ rearmed' =
          {[name |-> EndOfPhaseJob(games[i].phase),
            due |-> now + Remaining(games[i].phase_deadline),
            chat_id |-> games[i].chat_id,
            g |-> games[Len(games)].chat_id] :
              i \in {x \in DOMAIN games : /\ games[x].phase \in {"night", "day"}
                                         /\ games[x].phase_deadline # None}}
    /\ UNCHANGED <<session_vars, now, games>>

\* the job queue waits for the next armed callback
rearm_wait ==
    /\ rearmed # {}
    /\ \A j \in rearmed : j.due > now
    /\ now' = CHOOSE d \in {j.due : j \in rearmed} :
                 \A j \in rearmed : d <= j.due
    /\ UNCHANGED <<session_vars, last, games, rearmed>>

\* an armed callback fires: job_end_night or job_end_day of session g.chat_id,
\* as far as the phase and the deadline of that session go
rearmed_fire(j) ==
    /\ j \in rearmed
    /\ now >= j.due
    /\ rearmed' = rearmed \ {j}
    /\ games' = [i \in DOMAIN games |->
                    IF games[i].chat_id # j.g THEN games[i]
                    ELSE IF j.name = "job_end_night"
                    THEN [games[i] EXCEPT !.phase = "day",
                                          !.phase_deadline = now + DAY_SECONDS]
                    ELSE [games[i] EXCEPT !.phase = "voting",
                                          !.phase_deadline = now + VOTE_WINDOW]]
    /\ UNCHANGED <<session_vars, last, now>>

NextRearm ==
    \/ rearm_pass
    \/ rearm_wait
    \/ \E j \in rearmed : rearmed_fire(j)

SpecRearm == InitRearm /\ [][NextRearm]_vars

\* C35: the pass arms every callback with the delay max(1, deadline - now),
\* also when the deadline is now or lies in the past
C35_DelayAtLeastOne ==
    [][rearm_pass =>
          \A j \in rearmed' : \A i \in DOMAIN games :
             games[i].chat_id = j.chat_id
                => j.due - now = (IF games[i].phase_deadline - now >= 1
                                 THEN games[i].phase_deadline - now ELSE 1)]_vars

\* C38: a callback the pass armed for session S ends, when it fires, the
\* phase of S and changes no other session
C38_FiresForItsSession ==
    [][\A j \in rearmed : rearmed_fire(j) =>
          \A i \in DOMAIN games :
             /\ games[i].chat_id = j.chat_id
                   => games'[i].phase # games[i].phase
             /\ games[i].chat_id # j.chat_id => games'[i] = games[i]]_vars

\* ------------------- delete_pending_action_async and _persist_game_async
\* a night of the default session, its prompts pending in the memory and in
\* the table, nothing in flight
InitPersist ==
    /\ phase = "night"
    /\ roles_config = DefaultConfig
    /\ night_seconds = NIGHT_DEFAULT
    /\ phase_deadline = NIGHT_DEFAULT
    /\ players \in assign_roles([u \in 1..MIN_PLAYERS |-> PlayerState], DefaultConfig)
    /\ night_actions = EmptyLedger
    /\ mafia_votes = << >>
    /\ vote_log = << >>
    /\ pending = prompt_night(<< >>, 0, players, 0)
    /\ rows = pending
    /\ next_key = Cardinality(PromptButtons(players))
    /\ applied = {}
    /\ now = 0
    /\ jobs = {[name |-> "job_end_night", due |-> NIGHT_DEFAULT]}
    /\ job_ids = {"night_end", "reminder"}
    /\ pass = Idle
    /\ hmvc_tasks = 0
    /\ hmvc_loops = {}
    /\ timeouts = {}
    /\ handler = Idle
    /\ clicks = 0
    /\ last = NoClick
    /\ resets = 0
    /\ commits = << >>
    /\ registry = "memory"
    /\ held = FirstObject
    /\ getters = NoCalls
    /\ tasks = NoTasks
    /\ games = << >>
    /\ rearmed = {}

\* the variables the two tasks do not touch
untouched_by_tasks ==
    <<phase, roles_config, night_seconds, phase_deadline, players,
      night_actions, mafia_votes, next_key, now, jobs, pass, hmvc_tasks,
      hmvc_loops, timeouts, handler, clicks, applied, last, job_ids, resets,
      commits, vote_log, registry, held, getters, games, rearmed>>

\* delete_pending_action_async(k) up to its commit: the row is deleted. The
\* statement waits while another connection holds the write lock
delete_pending_action_async(k) ==
    /\ tasks.delete.pc = "idle"
    /\ tasks.persist.pc = "idle"
    /\ k \in DOMAIN pending
    /\ rows' = DictDelete(rows, k)
    /\ tasks' = [tasks EXCEPT !.delete = [pc |-> "committed", key |-> k]]
    /\ UNCHANGED <<untouched_by_tasks, pending>>

\* delete_pending_action_async after the connection is closed: the key is
\* deleted from the memory
delete_pending_action_memory ==
    /\ tasks.delete.pc = "committed"
    /\ pending' = DictDelete(pending, tasks.delete.key)
    /\ tasks' = [tasks EXCEPT !.delete = [pc |-> "idle", key |-> None]]
    /\ UNCHANGED <<untouched_by_tasks, rows>>

\* the task _persist_game created, up to its inserts: it holds the write
\* lock of the store and has read g.pending_action_callbacks
persist_game_async ==
    /\ tasks.persist.pc = "idle"
    /\ tasks' = [tasks EXCEPT !.persist = [pc |-> "written", snapshot |-> pending]]
    /\ UNCHANGED <<untouched_by_tasks, pending, rows>>

\* _persist_game_async commits: the rows of the session are the ones it read
persist_game_commit ==
    /\ tasks.persist.pc = "written"
    /\ rows' = tasks.persist.snapshot
    /\ tasks' = [tasks EXCEPT !.persist = [pc |-> "idle", snapshot |-> << >>]]
    /\ UNCHANGED <<untouched_by_tasks, pending>>

NextPersist ==
    \/ \E k \in 1..next_key : delete_pending_action_async(k)
    \/ delete_pending_action_memory
    \/ persist_game_async
    \/ persist_game_commit
    \/ /\ tasks.delete.pc = "idle"
       /\ \E k \in 1..next_key : \E u \in Clickers(k) :
             cb_handler(k, u, IF k \in DOMAIN rows THEN rows[k].target ELSE None)

SpecPersist == InitPersist /\ [][NextPersist]_vars

\* C37: when delete_pending_action_async has finished, the key is in neither
\* the memory nor the table; a key that is in neither stays out of both;
\* and a response with a key the memory no longer has is rejected as invalid
C37_DeletedStaysDeleted ==
    [][/\ delete_pending_action_memory =>
             /\ tasks.delete.key \notin DOMAIN pending'
             /\ tasks.delete.key \notin DOMAIN rows'
       /\ \A k \in 1..next_key :
             (k \notin DOMAIN pending /\ k \notin DOMAIN rows)
                => (k \notin DOMAIN pending' /\ k \notin DOMAIN rows')
       /\ (clicks' # clicks /\ last'.key \notin DOMAIN pending)
             => (last'.res = "invalid" /\ applied' = applied)]_vars

\* ------------------------------------------ get_game called from two threads
\* get_game, under the lock: the registry is looked up
get_game_check(c) ==
    /\ getters[c].pc = "idle"
    /\ getters' = [getters EXCEPT ![c] =
                      IF held # None THEN [pc |-> "returned", obj |-> held]
                      ELSE [pc |-> "missed", obj |-> None]]
    /\ UNCHANGED <<phase, roles_config, night_seconds, phase_deadline, players,
                   night_actions, mafia_votes, pending, next_key, now, jobs,
                   pass, hmvc_tasks, hmvc_loops, timeouts, handler, clicks,
                   applied, last, job_ids, resets, commits, vote_log, registry,
                   held, rows, tasks, games, rearmed>>

\* get_game, outside the lock: _load_game_sync builds an object from the
\* store, a new one at every call
get_game_load(c) ==
    /\ getters[c].pc = "missed"
    /\ getters' = [getters EXCEPT ![c] =
                      IF registry = "none" THEN [pc |-> "returned", obj |-> None]
                      ELSE [pc |-> "loaded",
                            obj |-> IF c = "loop" THEN FirstObject + 1
                                    ELSE FirstObject + 2]]
    /\ UNCHANGED <<phase, roles_config, night_seconds, phase_deadline, players,
                   night_actions, mafia_votes, pending, next_key, now, jobs,
                   pass, hmvc_tasks, hmvc_loops, timeouts, handler, clicks,
                   applied, last, job_ids, resets, commits, vote_log, registry,
                   held, rows, tasks, games, rearmed>>

\* get_game, under the lock again: self._games[chat_id] = g, and g is returned
get_game_store(c) ==
    /\ getters[c].pc = "loaded"
    /\ getters' = [getters EXCEPT ![c].pc = "returned"]
    /\ held' = getters[c].obj
    /\ registry' = "memory"
    /\ phase' = Loaded.phase
    /\ roles_config' = Loaded.roles_config
    /\ night_seconds' = Loaded.night_seconds
    /\ phase_deadline' = Loaded.phase_deadline
    /\ players' = Loaded.players
    /\ pending' = LoadPending(PendingRows(pending))
    /\ night_actions' = EmptyLedger
    /\ mafia_votes' = << >>
    /\ vote_log' = << >>
    /\ job_ids' = {}
    /\ last' = GameGot
    /\ UNCHANGED <<next_key, now, jobs, pass, hmvc_tasks, hmvc_loops, timeouts,
                   handler, clicks, applied, resets, commits, rows, tasks,
                   games, rearmed>>

NextGet ==
    \/ \E c \in Callers : get_game_check(c)
    \/ \E c \in Callers : get_game_load(c)
    \/ \E c \in Callers : get_game_store(c)

SpecGet == InitCreate /\ [][NextGet]_vars

\* C40: every get_game call that has returned a session returned the object
\* the registry holds
C40_OneLiveObject ==
    \A c \in Callers :
        (getters[c].pc = "returned" /\ getters[c].obj # None)
            => getters[c].obj = held
=============================================================================
